---- MODULE Spec2Model ----
(***************************************************************************)
(* Model of the demo frontend of opt_com:                                  *)
(*   app/page.tsx             Home: the Run Reducer, the Tree Reducer and  *)
(*                            the two stream sessions it opens             *)
(*   app/OptimizationTree.tsx the tree layout engine                       *)
(* The stream sessions themselves (streamRunSimulation and                 *)
(* streamOptimizeProtocol of lib/api) are not part of the sources; they    *)
(* are modelled from section 4.1 of the specification.                     *)
(***************************************************************************)
EXTENDS Integers, Sequences, FiniteSets, TLC

VARIABLES
    protocol,         \* page.tsx:45  active protocol text
    events,           \* page.tsx:50  message-exchange event log
    runResult,        \* page.tsx:51
    runLoading,       \* page.tsx:52
    runError,         \* page.tsx:53
    streamCancelRef,  \* page.tsx:54  id of the stream whose cancel handle is held, 0 = null
    optLoading,       \* page.tsx:61
    optError,         \* page.tsx:62
    optCancelRef,     \* page.tsx:63
    optNodes,         \* page.tsx:66  accumulated flat node list
    optBestPath,      \* page.tsx:67
    optBestNode,      \* page.tsx:68
    optCurrentRound,  \* page.tsx:69
    selectedOptNode,  \* page.tsx:70
    runStreams,       \* sessions opened by streamRunSimulation
    optStreams,       \* sessions opened by streamOptimizeProtocol
    runCalls,         \* callbacks each message-exchange session has invoked
    optCalls,         \* callbacks each optimization session has invoked
    optDelivered,     \* optimization sessions whose onEvent has run
    runRequest,       \* page.tsx:108  message-exchange request sent and not yet answered
    optRequest,       \* page.tsx:180  optimization request sent and not yet answered
    mounted,          \* page.tsx:92  Home is mounted: its unmount effect has not run
    ttsRequest,       \* route.ts:11  the request POST is handling
    ttsUpstream,      \* route.ts:48  the request POST has sent to the synthesis provider
    ttsResponse,      \* route.ts:11  what POST has returned or thrown
    layout,           \* result of the last layout pass of OptimizationTree
    firstLayout       \* result of the first layout pass over the current inputs

runVars == <<events, runResult, runLoading, runError, streamCancelRef, runStreams,
             runCalls, runRequest>>
treeVars == <<optNodes, optBestPath, optBestNode, optCurrentRound>>
optVars == <<optLoading, optError, optCancelRef, optNodes, optBestPath, optBestNode,
             optCurrentRound, optStreams, optCalls, optDelivered, optRequest>>
layoutVars == <<layout, firstLayout>>
ttsVars == <<ttsRequest, ttsUpstream, ttsResponse>>
hostVars == <<mounted, ttsRequest, ttsUpstream, ttsResponse>>
vars == <<protocol, events, runResult, runLoading, runError, streamCancelRef,
          optLoading, optError, optCancelRef, optNodes, optBestPath, optBestNode,
          optCurrentRound, selectedOptNode, runStreams, optStreams, runCalls, optCalls,
          optDelivered, runRequest, optRequest, mounted, ttsRequest, ttsUpstream,
          ttsResponse, layout, firstLayout>>

----------------------------------------------------------------------------
(* Bounds of the model *)

MaxNodes == 2      \* longest list candidate_evaluated events accumulate
MaxLayoutNodes == 3 \* longest flat node list handed to the layout
MaxRound == 1      \* largest round_index
MaxStreams == 2    \* sessions one process opens in a behaviour
MaxEvents == 2     \* longest message-exchange event log
MaxPath == 3       \* longest best path handed to the layout
MaxCloses == 2     \* the count of onClose invocations of a session stops here
\* characters of a text sent to the text-to-speech route
MaxText == 2

----------------------------------------------------------------------------
(* Values *)

\* null of a string-valued field
NullStr == "null"
\* null of an object-valued field
Null == [null |-> TRUE]

defaultProtocol == "default protocol"

NodeA == [id |-> "n0", parent_id |-> NullStr, round_index |-> 0,
          communication_tokens |-> 120, rule |-> "rule A"]
NodeB == [id |-> "n1", parent_id |-> "n0", round_index |-> 1,
          communication_tokens |-> 80, rule |-> "rule B"]
\* a second node that reuses the id n1
NodeB2 == [id |-> "n1", parent_id |-> "n0", round_index |-> 1,
           communication_tokens |-> 30, rule |-> "rule C"]

EventNodes == {NodeA, NodeB, NodeB2}
EventPaths == {<<"n0">>, <<"n0", "n1">>}
EventTrees == {<<NodeA>>, <<NodeA, NodeB>>}
EventErrors == {"rate limited"}
TransportErrors == {"network error"}

\* OptimizeStreamEvent, the five event shapes of the optimization stream
BaseEvaluated == [type : {"base_evaluated"}, node : EventNodes, best_path : EventPaths]
CandidateEvaluated == [type : {"candidate_evaluated"}, node : EventNodes,
                       round_index : 0..MaxRound]
BestUpdated == [type : {"best_updated"}, node : EventNodes, best_path : EventPaths]
Done == [type : {"done"}, tree : EventTrees, best_path : EventPaths,
         best_node : EventNodes]
ErrorEvent == [type : {"error"}, message : EventErrors]
OptimizeStreamEvent ==
    BaseEvaluated \cup CandidateEvaluated \cup BestUpdated \cup Done \cup ErrorEvent

StreamIds == 1..MaxStreams
NoStreams == [s \in StreamIds |-> "unused"]
NoLayout == [rendered |-> FALSE]

----------------------------------------------------------------------------
(* Event Stream Session (specification 4.1) *)

\* the session a new open() call creates: the lowest unused one
NextStream(streams) ==
    IF \E s \in StreamIds : streams[s] = "unused"
    THEN CHOOSE s \in StreamIds :
             streams[s] = "unused" /\ \A t \in StreamIds : streams[t] = "unused" => s <= t
    ELSE 0

\* open(requestPayload, callbacks): one more inbound stream
OpenStream(streams) == [streams EXCEPT ![NextStream(streams)] = "open"]

\* cancel(): tears an open stream down; safe and without effect on any other
CancelStream(streams, ref) ==
    IF ref \in StreamIds /\ streams[ref] = "open"
    THEN [streams EXCEPT ![ref] = "cancelled"]
    ELSE streams

\* cancel() invokes onClose when it tears an open stream down
CancelCloses(streams, ref) == ref \in StreamIds /\ streams[ref] = "open"

\* the callbacks a session has invoked: how often onClose ran, and whether
\* onEvent or onError ran after onClose
NoCalls == [s \in StreamIds |-> [onClose |-> 0, late |-> FALSE]]

\* onEvent or onError of session s runs
CallOnEvent(calls, s) ==
    [calls EXCEPT ![s] = [onClose |-> @.onClose, late |-> @.late \/ @.onClose > 0]]

CallOnClose(calls, s) ==
    [calls EXCEPT ![s] = [onClose |-> IF @.onClose < MaxCloses THEN @.onClose + 1
                                      ELSE @.onClose,
                          late |-> @.late]]

\* the callbacks a call of the cancellation handle ref invokes
CancelCalls(calls, streams, ref) ==
    IF CancelCloses(streams, ref) THEN CallOnClose(calls, ref) ELSE calls

\* two state updates of one handler of which the earlier one stands
SetAfterKeepsEarlier(earlier, later) == earlier

\* two state updates of one handler in program order: the later one stands
SetAfter(earlier, later) == later

----------------------------------------------------------------------------
(* Tree Reducer: handleOptimizeEvent *)

\* replaces a node of the same id instead of appending
ReduceNodesUpsert(event, prev) ==
    CASE event.type = "base_evaluated" -> <<event.node>>
      [] event.type = "candidate_evaluated" ->
            IF \E i \in 1..Len(prev) : prev[i].id = event.node.id
            THEN [i \in 1..Len(prev) |->
                    IF prev[i].id = event.node.id THEN event.node ELSE prev[i]]
            ELSE Append(prev, event.node)
      [] event.type = "done" -> event.tree
      [] OTHER -> prev

\* merges the final tree into the accumulated list
ReduceNodesMerge(event, prev) ==
    CASE event.type = "base_evaluated" -> <<event.node>>
      [] event.type = "candidate_evaluated" -> Append(prev, event.node)
      [] event.type = "done" -> IF Len(prev) > Len(event.tree) THEN prev ELSE event.tree
      [] OTHER -> prev

\* drops the accumulated list when the run fails
ReduceNodesDropOnError(event, prev) ==
    CASE event.type = "base_evaluated" -> <<event.node>>
      [] event.type = "candidate_evaluated" -> Append(prev, event.node)
      [] event.type = "done" -> event.tree
      [] event.type = "error" -> <<>>
      [] OTHER -> prev

\* puts a candidate in front of the accumulated list
ReduceNodesPrepend(event, prev) ==
    CASE event.type = "base_evaluated" -> <<event.node>>
      [] event.type = "candidate_evaluated" -> <<event.node>> \o prev
      [] event.type = "done" -> event.tree
      [] OTHER -> prev

ReduceNodes(event, prev) ==
    CASE event.type = "base_evaluated" -> <<event.node>>
      [] event.type = "candidate_evaluated" -> Append(prev, event.node)
      [] event.type = "done" -> event.tree
      [] OTHER -> prev

\* keeps the earlier best path when a run starts over
ReduceBestPathKeptOnBase(event, prev) ==
    CASE event.type = "base_evaluated" -> IF prev = <<>> THEN event.best_path ELSE prev
      [] event.type = "best_updated" -> event.best_path
      [] event.type = "done" -> event.best_path
      [] OTHER -> prev

\* ignores a best_updated whose node is not in the accumulated list
ReduceBestPathValidated(event, prev) ==
    CASE event.type = "base_evaluated" -> event.best_path
      [] event.type = "best_updated" ->
            IF \E i \in 1..Len(optNodes) : optNodes[i].id = event.node.id
            THEN event.best_path ELSE prev
      [] event.type = "done" -> event.best_path
      [] OTHER -> prev

ReduceBestPath(event, prev) ==
    CASE event.type = "base_evaluated" -> event.best_path
      [] event.type = "best_updated" -> event.best_path
      [] event.type = "done" -> event.best_path
      [] OTHER -> prev

\* adopts a candidate that costs fewer tokens than the best node
ReduceBestNodeCheapest(event, prev) ==
    CASE event.type = "base_evaluated" -> event.node
      [] event.type = "candidate_evaluated" ->
            IF prev # Null /\ event.node.communication_tokens < prev.communication_tokens
            THEN event.node ELSE prev
      [] event.type = "best_updated" -> event.node
      [] event.type = "done" -> event.best_node
      [] OTHER -> prev

ReduceBestNode(event, prev) ==
    CASE event.type = "base_evaluated" -> event.node
      [] event.type = "best_updated" -> event.node
      [] event.type = "done" -> event.best_node
      [] OTHER -> prev

\* forgets to reset the round counter
ReduceCurrentRoundKept(event, prev) ==
    CASE event.type = "candidate_evaluated" -> event.round_index
      [] OTHER -> prev

ReduceCurrentRound(event, prev) ==
    CASE event.type = "base_evaluated" -> 0
      [] event.type = "candidate_evaluated" -> event.round_index
      [] OTHER -> prev

\* adopts the rule of every new best node, not only the one of done
ReduceProtocolOnBest(event, prev) ==
    CASE event.type = "done" -> event.best_node.rule
      [] event.type = "best_updated" -> event.node.rule
      [] OTHER -> prev

ReduceProtocol(event, prev) ==
    IF event.type = "done" THEN event.best_node.rule ELSE prev

\* drops the stored error when the run completes
ReduceOptErrorClearedOnDone(event, prev) ==
    CASE event.type = "error" -> event.message
      [] event.type = "done" -> NullStr
      [] OTHER -> prev

ReduceOptError(event, prev) ==
    IF event.type = "error" THEN event.message ELSE prev

handleOptimizeEvent(event) ==
    /\ optNodes' = ReduceNodes(event, optNodes)
    /\ optBestPath' = ReduceBestPath(event, optBestPath)
    /\ optBestNode' = ReduceBestNode(event, optBestNode)
    /\ optCurrentRound' = ReduceCurrentRound(event, optCurrentRound)
    /\ protocol' = ReduceProtocol(event, protocol)
    /\ optError' = ReduceOptError(event, optError)

----------------------------------------------------------------------------
(* Optimization process *)

\* the accumulated list stays within the bound of the model
WithinBound(event) ==
    event.type = "candidate_evaluated" => Len(optNodes) < MaxNodes

\* onEvent of a session whatever its state, torn down or not
OptOnEventAfterTeardown(s, event) ==
    /\ WithinBound(event)
    /\ handleOptimizeEvent(event)
    /\ optCalls' = CallOnEvent(optCalls, s)
    /\ optDelivered' = optDelivered \cup {s}
    /\ optRequest' = Null
    /\ UNCHANGED <<optLoading, optCancelRef, optStreams, selectedOptNode>>
    /\ UNCHANGED runVars
    /\ UNCHANGED layoutVars
    /\ UNCHANGED hostVars

\* onEvent of the optimization stream s
OptOnEvent(s, event) ==
    /\ optStreams[s] = "open"
    /\ WithinBound(event)
    /\ handleOptimizeEvent(event)
    /\ optCalls' = CallOnEvent(optCalls, s)
    /\ optDelivered' = optDelivered \cup {s}
    /\ optRequest' = Null
    /\ UNCHANGED <<optLoading, optCancelRef, optStreams, selectedOptNode>>
    /\ UNCHANGED runVars
    /\ UNCHANGED layoutVars
    /\ UNCHANGED hostVars

\* the server completes stream s: onClose
OptOnClose(s) ==
    /\ optStreams[s] = "open"
    /\ optStreams' = [optStreams EXCEPT ![s] = "closed"]
    /\ optCalls' = CallOnClose(optCalls, s)
    /\ optRequest' = Null
    /\ optLoading' = FALSE
    /\ UNCHANGED <<optError, optCancelRef, optDelivered, selectedOptNode, protocol>>
    /\ UNCHANGED treeVars
    /\ UNCHANGED runVars
    /\ UNCHANGED layoutVars
    /\ UNCHANGED hostVars

\* the variant of onError that starts the request again on a fresh stream
OptOnErrorRetries(s, message) ==
    LET closed == [optStreams EXCEPT ![s] = "closed"]
        retry == NextStream(closed) # 0
    IN  /\ optStreams[s] = "open"
        /\ optStreams' = IF retry THEN OpenStream(closed) ELSE closed
        /\ optCancelRef' = IF retry THEN NextStream(closed) ELSE optCancelRef
        /\ optCalls' = CallOnClose(CallOnEvent(optCalls, s), s)
        /\ optError' = message
        /\ optRequest' = Null
        /\ optLoading' = FALSE
        /\ UNCHANGED <<optDelivered, selectedOptNode, protocol>>
        /\ UNCHANGED treeVars
        /\ UNCHANGED runVars
        /\ UNCHANGED layoutVars
        /\ UNCHANGED hostVars

\* stream s fails: onError(err), and the stream is torn down with onClose
OptOnError(s, message) ==
    /\ optStreams[s] = "open"
    /\ optStreams' = [optStreams EXCEPT ![s] = "closed"]
    /\ optCalls' = CallOnClose(CallOnEvent(optCalls, s), s)
    /\ optError' = message
    /\ optRequest' = Null
    /\ optLoading' = FALSE
    /\ UNCHANGED <<optCancelRef, optDelivered, selectedOptNode, protocol>>
    /\ UNCHANGED treeVars
    /\ UNCHANGED runVars
    /\ UNCHANGED layoutVars
    /\ UNCHANGED hostVars

\* the variant of handleOptimize that leaves the earlier stream open
HandleOptimizeKeepsStream ==
    /\ mounted
    /\ NextStream(optStreams) # 0
    /\ optStreams' = OpenStream(optStreams)
    /\ optCancelRef' = NextStream(optStreams)
    /\ optCalls' = optCalls
    /\ optDelivered' = optDelivered
    /\ optRequest' = [protocol |-> protocol]
    /\ optLoading' = TRUE
    /\ optError' = NullStr
    /\ optNodes' = <<>>
    /\ optBestPath' = <<>>
    /\ optBestNode' = Null
    /\ optCurrentRound' = 0
    /\ selectedOptNode' = Null
    /\ UNCHANGED protocol
    /\ UNCHANGED runVars
    /\ UNCHANGED layoutVars
    /\ UNCHANGED hostVars

handleOptimize ==
    LET cancelled == CancelStream(optStreams, optCancelRef)
        \* optCancelRef.current?.() runs onClose of the earlier stream first
        loadingAfterCancel ==
            IF CancelCloses(optStreams, optCancelRef) THEN FALSE ELSE optLoading
    IN  /\ mounted
        /\ NextStream(cancelled) # 0
        /\ optStreams' = OpenStream(cancelled)
        /\ optCancelRef' = NextStream(cancelled)
        /\ optCalls' = CancelCalls(optCalls, optStreams, optCancelRef)
        /\ optDelivered' = optDelivered
        /\ optRequest' = [protocol |-> protocol]
        \* setOptLoading(true) comes after the cancel call and overrides its onClose
        /\ optLoading' = SetAfter(loadingAfterCancel, TRUE)
        /\ optError' = NullStr
        /\ optNodes' = <<>>
        /\ optBestPath' = <<>>
        /\ optBestNode' = Null
        /\ optCurrentRound' = 0
        /\ selectedOptNode' = Null
        /\ UNCHANGED protocol
        /\ UNCHANGED runVars
        /\ UNCHANGED layoutVars
        /\ UNCHANGED hostVars

----------------------------------------------------------------------------
(* Message-exchange process: the Run Reducer *)

AgentMessageEvent ==
    [type : {"agent_message"}, direction : {"outbound"}, from : {"agent1"},
     to : {"agent2"}, message : {"ask", "ask again"}]
    \cup
    [type : {"agent_message"}, direction : {"return"}, from : {"agent2"},
     to : {"agent1"}, message : {"reply"}]
\* a final event carries tokens or has no tokens field
FinalEvent ==
    [type : {"final"}, message : {"result"}, tokens : {7}]
    \cup [type : {"final"}, message : {"result"}]
RunEvent == AgentMessageEvent \cup FinalEvent

\* undefined, what indexing past the end of an array gives
Undefined == [undefined |-> TRUE]

\* evt.tokens ?? 0
TokensOrZero(evt) == IF "tokens" \in DOMAIN evt THEN evt.tokens ELSE 0

\* keeps the token count of the result stored before when the event has none
RunResponseKeepsTokens(evt) ==
    [final |-> evt.message,
     communicationTokens |->
        IF "tokens" \in DOMAIN evt THEN evt.tokens
        ELSE IF runResult # Null THEN runResult.communicationTokens ELSE 0,
     events |-> <<>>]

RunResponse(evt) ==
    [final |-> evt.message, communicationTokens |-> TokensOrZero(evt), events |-> <<>>]

\* the events of one direction among the agent messages msgs
DirectionEvents(msgs, direction) ==
    LET OfDirection(e) == e.direction = direction
    IN  SelectSeq(msgs, OfDirection)

\* keeps, of the agent messages, only the newest of each direction in the log
RunOnEventLatestOnly(s, evt) ==
    LET Kept(e) ==
            \/ e.type # "agent_message"
            \/ evt.type # "agent_message"
            \/ e.direction # evt.direction
    IN  /\ runStreams[s] = "open"
        /\ Len(events) < MaxEvents
        /\ events' = Append(SelectSeq(events, Kept), evt)
        /\ runResult' = IF evt.type = "final" THEN RunResponse(evt) ELSE runResult
        /\ runCalls' = CallOnEvent(runCalls, s)
        /\ runRequest' = Null
        /\ UNCHANGED <<runLoading, runError, streamCancelRef, runStreams>>
        /\ UNCHANGED <<protocol, selectedOptNode>>
        /\ UNCHANGED optVars
        /\ UNCHANGED layoutVars
        /\ UNCHANGED hostVars

\* onEvent of the message-exchange stream s
RunOnEvent(s, evt) ==
    /\ runStreams[s] = "open"
    /\ Len(events) < MaxEvents
    /\ events' = Append(events, evt)
    /\ runResult' = IF evt.type = "final" THEN RunResponse(evt) ELSE runResult
    /\ runCalls' = CallOnEvent(runCalls, s)
    /\ runRequest' = Null
    /\ UNCHANGED <<runLoading, runError, streamCancelRef, runStreams>>
    /\ UNCHANGED <<protocol, selectedOptNode>>
    /\ UNCHANGED optVars
    /\ UNCHANGED layoutVars
    /\ UNCHANGED hostVars

\* onClose of a session that stays open afterwards
RunOnCloseStaysOpen(s) ==
    /\ runStreams[s] = "open"
    /\ runStreams' = runStreams
    /\ runCalls' = CallOnClose(runCalls, s)
    /\ runRequest' = Null
    /\ runLoading' = FALSE
    /\ UNCHANGED <<events, runResult, runError, streamCancelRef>>
    /\ UNCHANGED <<protocol, selectedOptNode>>
    /\ UNCHANGED optVars
    /\ UNCHANGED layoutVars
    /\ UNCHANGED hostVars

\* the server completes stream s: onClose
RunOnClose(s) ==
    /\ runStreams[s] = "open"
    /\ runStreams' = [runStreams EXCEPT ![s] = "closed"]
    /\ runCalls' = CallOnClose(runCalls, s)
    /\ runRequest' = Null
    /\ runLoading' = FALSE
    /\ UNCHANGED <<events, runResult, runError, streamCancelRef>>
    /\ UNCHANGED <<protocol, selectedOptNode>>
    /\ UNCHANGED optVars
    /\ UNCHANGED layoutVars
    /\ UNCHANGED hostVars

RunOnError(s, message) ==
    /\ runStreams[s] = "open"
    /\ runStreams' = [runStreams EXCEPT ![s] = "closed"]
    /\ runCalls' = CallOnClose(CallOnEvent(runCalls, s), s)
    /\ runError' = message
    /\ runRequest' = Null
    /\ runLoading' = FALSE
    /\ UNCHANGED <<events, runResult, streamCancelRef>>
    /\ UNCHANGED <<protocol, selectedOptNode>>
    /\ UNCHANGED optVars
    /\ UNCHANGED layoutVars
    /\ UNCHANGED hostVars

\* the variant of handleRun that leaves the result of the earlier run
HandleRunKeepsResult ==
    LET cancelled == CancelStream(runStreams, streamCancelRef)
        loadingAfterCancel ==
            IF CancelCloses(runStreams, streamCancelRef) THEN FALSE ELSE runLoading
    IN  /\ mounted
        /\ NextStream(cancelled) # 0
        /\ runStreams' = OpenStream(cancelled)
        /\ streamCancelRef' = NextStream(cancelled)
        /\ runCalls' = CancelCalls(runCalls, runStreams, streamCancelRef)
        /\ runRequest' = [protocol |-> protocol]
        /\ runLoading' = SetAfter(loadingAfterCancel, TRUE)
        /\ runError' = NullStr
        /\ runResult' = runResult
        /\ events' = <<>>
        /\ UNCHANGED <<protocol, selectedOptNode>>
        /\ UNCHANGED optVars
        /\ UNCHANGED layoutVars
        /\ UNCHANGED hostVars

handleRun ==
    LET cancelled == CancelStream(runStreams, streamCancelRef)
        loadingAfterCancel ==
            IF CancelCloses(runStreams, streamCancelRef) THEN FALSE ELSE runLoading
    IN  /\ mounted
        /\ NextStream(cancelled) # 0
        /\ runStreams' = OpenStream(cancelled)
        /\ streamCancelRef' = NextStream(cancelled)
        /\ runCalls' = CancelCalls(runCalls, runStreams, streamCancelRef)
        /\ runRequest' = [protocol |-> protocol]
        /\ runLoading' = SetAfter(loadingAfterCancel, TRUE)
        /\ runError' = NullStr
        /\ runResult' = Null
        /\ events' = <<>>
        /\ UNCHANGED <<protocol, selectedOptNode>>
        /\ UNCHANGED optVars
        /\ UNCHANGED layoutVars
        /\ UNCHANGED hostVars

\* messageEvents: the agent_message events of the log, in log order
messageEvents ==
    LET IsAgentMessage(e) == e.type = "agent_message"
    IN  SelectSeq(events, IsAgentMessage)

\* shows the oldest message of the direction
LatestMessageOldest(msgs, direction) ==
    LET ofDirection == DirectionEvents(msgs, direction)
    IN  IF Len(ofDirection) = 0 THEN Undefined ELSE ofDirection[1]

\* MessageArc: events.filter(e => e.direction === direction).slice(-1)[0]
LatestMessage(msgs, direction) ==
    LET ofDirection == DirectionEvents(msgs, direction)
    IN  IF Len(ofDirection) = 0 THEN Undefined ELSE ofDirection[Len(ofDirection)]

\* the two messages MessageArc presents, given messageEvents as its events
outboundMessage == LatestMessage(messageEvents, "outbound")
returnMessage == LatestMessage(messageEvents, "return")

----------------------------------------------------------------------------
(* Specification of the optimization process *)

Init ==
    /\ protocol = defaultProtocol
    /\ events = <<>>
    /\ runResult = Null
    /\ runLoading = FALSE
    /\ runError = NullStr
    /\ streamCancelRef = 0
    /\ optLoading = FALSE
    /\ optError = NullStr
    /\ optCancelRef = 0
    /\ optNodes = <<>>
    /\ optBestPath = <<>>
    /\ optBestNode = Null
    /\ optCurrentRound = 0
    /\ selectedOptNode = Null
    /\ runStreams = NoStreams
    /\ optStreams = NoStreams
    /\ runCalls = NoCalls
    /\ optCalls = NoCalls
    /\ optDelivered = {}
    /\ runRequest = Null
    /\ optRequest = Null
    /\ mounted = TRUE
    /\ ttsRequest = Null
    /\ ttsUpstream = Null
    /\ ttsResponse = Null
    /\ layout = NoLayout
    /\ firstLayout = NoLayout

OptDeliver == \E s \in StreamIds : \E event \in OptimizeStreamEvent : OptOnEvent(s, event)
OptClose == \E s \in StreamIds : OptOnClose(s)
OptFail == \E s \in StreamIds : \E message \in TransportErrors : OptOnError(s, message)

Next ==
    \/ handleOptimize
    \/ OptDeliver
    \/ OptClose
    \/ OptFail

Spec == Init /\ [][Next]_vars

----------------------------------------------------------------------------
(* Specification of the page: both processes side by side, each stream      *)
(* delivering a short run                                                   *)

PageOptEvents ==
    { [type |-> "base_evaluated", node |-> NodeA, best_path |-> <<"n0">>],
      [type |-> "candidate_evaluated", node |-> NodeB, round_index |-> 1],
      [type |-> "done", tree |-> <<NodeA, NodeB>>, best_path |-> <<"n0", "n1">>,
       best_node |-> NodeB],
      [type |-> "error", message |-> "rate limited"] }
PageRunEvents ==
    { [type |-> "agent_message", direction |-> "outbound", from |-> "agent1",
       to |-> "agent2", message |-> "ask"],
      [type |-> "final", message |-> "result", tokens |-> 7] }

PageOptDeliver == \E s \in StreamIds : \E event \in PageOptEvents : OptOnEvent(s, event)
PageRunDeliver == \E s \in StreamIds : \E evt \in PageRunEvents : RunOnEvent(s, evt)
RunClose == \E s \in StreamIds : RunOnClose(s)
RunFail == \E s \in StreamIds : \E message \in TransportErrors : RunOnError(s, message)

PageNext ==
    \/ handleOptimize
    \/ PageOptDeliver
    \/ OptClose
    \/ OptFail
    \/ handleRun
    \/ PageRunDeliver
    \/ RunClose
    \/ RunFail

PageSpec == Init /\ [][PageNext]_vars

----------------------------------------------------------------------------
(* Specification of the message-exchange process *)

RunDeliver == \E s \in StreamIds : \E evt \in RunEvent : RunOnEvent(s, evt)

RunNext ==
    \/ handleRun
    \/ RunDeliver
    \/ RunClose
    \/ RunFail

RunSpec == Init /\ [][RunNext]_vars

----------------------------------------------------------------------------
(* Specification of the life of the page: both processes with their errors  *)
(* and restarts, until Home is unmounted                                    *)

\* the request in flight after a call of the cancellation handle ref
CancelRequest(request, streams, ref) ==
    IF CancelCloses(streams, ref) THEN Null ELSE request

\* the loading flag after a call of the cancellation handle ref: its onClose
\* sets the flag to false
CancelLoading(loading, streams, ref) ==
    IF CancelCloses(streams, ref) THEN FALSE ELSE loading

\* an unmount effect that cancels the message-exchange stream only
UnmountRunOnly ==
    /\ mounted
    /\ mounted' = FALSE
    /\ runStreams' = CancelStream(runStreams, streamCancelRef)
    /\ runCalls' = CancelCalls(runCalls, runStreams, streamCancelRef)
    /\ runRequest' = CancelRequest(runRequest, runStreams, streamCancelRef)
    /\ runLoading' = CancelLoading(runLoading, runStreams, streamCancelRef)
    /\ UNCHANGED <<events, runResult, runError, streamCancelRef>>
    /\ UNCHANGED optVars
    /\ UNCHANGED <<protocol, selectedOptNode>>
    /\ UNCHANGED ttsVars
    /\ UNCHANGED layoutVars

\* the cleanup of the effect of Home: both held handles are called
Unmount ==
    /\ mounted
    /\ mounted' = FALSE
    /\ runStreams' = CancelStream(runStreams, streamCancelRef)
    /\ runCalls' = CancelCalls(runCalls, runStreams, streamCancelRef)
    /\ runRequest' = CancelRequest(runRequest, runStreams, streamCancelRef)
    /\ runLoading' = CancelLoading(runLoading, runStreams, streamCancelRef)
    /\ optStreams' = CancelStream(optStreams, optCancelRef)
    /\ optCalls' = CancelCalls(optCalls, optStreams, optCancelRef)
    /\ optRequest' = CancelRequest(optRequest, optStreams, optCancelRef)
    /\ optLoading' = CancelLoading(optLoading, optStreams, optCancelRef)
    /\ UNCHANGED <<events, runResult, runError, streamCancelRef>>
    /\ UNCHANGED <<optError, optCancelRef, optDelivered>>
    /\ UNCHANGED treeVars
    /\ UNCHANGED <<protocol, selectedOptNode>>
    /\ UNCHANGED ttsVars
    /\ UNCHANGED layoutVars

LifeOptEvents ==
    { [type |-> "base_evaluated", node |-> NodeA, best_path |-> <<"n0">>],
      [type |-> "candidate_evaluated", node |-> NodeB, round_index |-> 1],
      [type |-> "best_updated", node |-> NodeB, best_path |-> <<"n0", "n1">>],
      [type |-> "done", tree |-> <<NodeA, NodeB>>, best_path |-> <<"n0", "n1">>,
       best_node |-> NodeB],
      [type |-> "error", message |-> "rate limited"] }

LifeOptDeliver == \E s \in StreamIds : \E event \in LifeOptEvents : OptOnEvent(s, event)

LifeNext ==
    \/ handleOptimize
    \/ LifeOptDeliver
    \/ OptClose
    \/ OptFail
    \/ handleRun
    \/ PageRunDeliver
    \/ RunClose
    \/ RunFail
    \/ Unmount

LifeSpec == Init /\ [][LifeNext]_vars

----------------------------------------------------------------------------
(* Specification of the protocol text: the optimization process adopts it,  *)
(* the user edits it, and both processes send it with their requests        *)

UserTexts == {"user protocol"}

\* the user types in the protocol field: onChange={setProtocol}
EditProtocol(text) ==
    /\ mounted
    /\ protocol' = text
    /\ UNCHANGED selectedOptNode
    /\ UNCHANGED optVars
    /\ UNCHANGED runVars
    /\ UNCHANGED layoutVars
    /\ UNCHANGED hostVars

ProtocolOptEvents ==
    { [type |-> "base_evaluated", node |-> NodeA, best_path |-> <<"n0">>],
      [type |-> "candidate_evaluated", node |-> NodeB, round_index |-> 1],
      [type |-> "best_updated", node |-> NodeB, best_path |-> <<"n0", "n1">>],
      [type |-> "done", tree |-> <<NodeA, NodeB>>, best_path |-> <<"n0", "n1">>,
       best_node |-> NodeB],
      [type |-> "done", tree |-> <<NodeA>>, best_path |-> <<"n0">>, best_node |-> NodeA],
      [type |-> "error", message |-> "rate limited"] }

ProtocolDeliver ==
    \E s \in StreamIds : \E event \in ProtocolOptEvents : OptOnEvent(s, event)
ProtocolEdit == \E text \in UserTexts : EditProtocol(text)

ProtocolNext ==
    \/ handleOptimize
    \/ ProtocolDeliver
    \/ OptClose
    \/ handleRun
    \/ ProtocolEdit

ProtocolSpec == Init /\ [][ProtocolNext]_vars

----------------------------------------------------------------------------
(* Tree Layout Engine: the useMemo hooks of OptimizationTree *)

NODE_WIDTH == 140
NODE_HEIGHT == 80
LEVEL_HEIGHT == 160
NODE_SPACING == 20
TOP_MARGIN == 40
DEFAULT_WIDTH == 800
DEFAULT_HEIGHT == 600
WIDTH_MARGIN == 80
HEIGHT_MARGIN == 100

Max(a, b) == IF a >= b THEN a ELSE b
Range(seq) == {seq[i] : i \in 1..Len(seq)}

RECURSIVE Ascending(_)
\* the indices of a set in the order forEach visits them
Ascending(S) ==
    IF S = {} THEN <<>>
    ELSE LET least == CHOOSE i \in S : \A j \in S : i <= j
         IN  <<least>> \o Ascending(S \ {least})

\* new Set(bestPath)
bestPathSet(bestPath) == Range(bestPath)

\* keys of nodeMap in insertion order: Map.set keeps the place of the first
\* occurrence of a key
MapKeys(nodes) ==
    LET first(i) == \A j \in 1..(i - 1) : nodes[j].id # nodes[i].id
        idx == Ascending({k \in 1..Len(nodes) : first(k)})
    IN  [k \in 1..Len(idx) |-> nodes[idx[k]].id]

\* value of nodeMap under a key: Map.set overwrites, the last occurrence stands
MapValue(nodes, id) ==
    LET last == CHOOSE i \in 1..Len(nodes) :
                    /\ nodes[i].id = id
                    /\ \A j \in (i + 1)..Len(nodes) : nodes[j].id # id
    IN  nodes[last]

\* hangs a node whose parent is missing under the root
ChildrenAdoptOrphans(nodes, id) ==
    LET keys == MapKeys(nodes)
        parentOf(k) == MapValue(nodes, keys[k]).parent_id
        isChild(k) ==
            \/ parentOf(k) = id
            \/ /\ parentOf(k) # NullStr
               /\ parentOf(k) \notin Range(keys)
               /\ MapValue(nodes, id).parent_id = NullStr
        idx == Ascending({k \in 1..Len(keys) : isChild(k)})
    IN  IF id = NullStr THEN <<>> ELSE [k \in 1..Len(idx) |-> keys[idx[k]]]

\* parent.children after the forEach over nodeMap: the ids of the map entries
\* that name this key as parent, in map order
Children(nodes, id) ==
    LET keys == MapKeys(nodes)
        isChild(k) == MapValue(nodes, keys[k]).parent_id = id
        idx == Ascending({k \in 1..Len(keys) : isChild(k)})
    IN  IF id = NullStr THEN <<>> ELSE [k \in 1..Len(idx) |-> keys[idx[k]]]

\* root after the forEach over nodeMap: the last entry with parent_id null
Root(nodes) ==
    LET keys == MapKeys(nodes)
        isRoot(k) == MapValue(nodes, keys[k]).parent_id = NullStr
        idx == Ascending({k \in 1..Len(keys) : isRoot(k)})
    IN  IF Len(idx) = 0 THEN NullStr ELSE keys[idx[Len(idx)]]

\* roundGroups.get(round) before the sort: the entries of that round in map order
RoundGroup(nodes, round) ==
    LET keys == MapKeys(nodes)
        inRound(k) == MapValue(nodes, keys[k]).round_index = round
        idx == Ascending({k \in 1..Len(keys) : inRound(k)})
    IN  [k \in 1..Len(idx) |-> keys[idx[k]]]

Rounds(nodes) == {nodes[i].round_index : i \in 1..Len(nodes)}

\* a comparator that ranks by tokens alone
CompareTokensOnly(nodes, bestPath, a, b) ==
    MapValue(nodes, a).communication_tokens - MapValue(nodes, b).communication_tokens

\* a comparator that also brings the selected node to the front of its round
CompareSelectedFirst(nodes, bestPath, a, b) ==
    LET aIsBest == IF a \in bestPathSet(bestPath) THEN 0 ELSE 1
        bIsBest == IF b \in bestPathSet(bestPath) THEN 0 ELSE 1
        aRank == IF selectedOptNode # Null /\ selectedOptNode.id = a THEN 0 ELSE 1
        bRank == IF selectedOptNode # Null /\ selectedOptNode.id = b THEN 0 ELSE 1
    IN  IF aRank # bRank THEN aRank - bRank
        ELSE IF aIsBest # bIsBest THEN aIsBest - bIsBest
        ELSE MapValue(nodes, a).communication_tokens
                 - MapValue(nodes, b).communication_tokens

\* the comparator of roundNodes.sort
Compare(nodes, bestPath, a, b) ==
    LET aIsBest == IF a \in bestPathSet(bestPath) THEN 0 ELSE 1
        bIsBest == IF b \in bestPathSet(bestPath) THEN 0 ELSE 1
    IN  IF aIsBest # bIsBest THEN aIsBest - bIsBest
        ELSE MapValue(nodes, a).communication_tokens
                 - MapValue(nodes, b).communication_tokens

RECURSIVE InsertSortedBeforeEquals(_, _, _, _)
\* puts id into a sorted sequence before the first element that does not compare less
InsertSortedBeforeEquals(nodes, bestPath, sorted, id) ==
    IF sorted = <<>> THEN <<id>>
    ELSE IF Compare(nodes, bestPath, Head(sorted), id) < 0
         THEN <<Head(sorted)>> \o InsertSortedBeforeEquals(nodes, bestPath, Tail(sorted), id)
         ELSE <<id>> \o sorted

RECURSIVE InsertSorted(_, _, _, _)
\* puts id into a sorted sequence behind every element that does not compare greater
InsertSorted(nodes, bestPath, sorted, id) ==
    IF sorted = <<>> THEN <<id>>
    ELSE IF Compare(nodes, bestPath, Head(sorted), id) <= 0
         THEN <<Head(sorted)>> \o InsertSorted(nodes, bestPath, Tail(sorted), id)
         ELSE <<id>> \o sorted

RECURSIVE SortGroup(_, _, _)
\* Array.prototype.sort with the comparator: a stable sort
SortGroup(nodes, bestPath, group) ==
    IF group = <<>> THEN <<>>
    ELSE InsertSorted(nodes, bestPath,
                      SortGroup(nodes, bestPath, SubSeq(group, 1, Len(group) - 1)),
                      group[Len(group)])

SortedRound(nodes, bestPath, round) ==
    SortGroup(nodes, bestPath, RoundGroup(nodes, round))

\* totalWidth / roundWidth of a round of n nodes
RowWidth(n) == n * NODE_WIDTH + (n - 1) * NODE_SPACING

\* maxWidth: starts at 0 and takes Math.max with the width of every round
MaxWidth(nodes) ==
    LET widths == {RowWidth(Len(RoundGroup(nodes, round))) : round \in Rounds(nodes)}
    IN  CHOOSE w \in widths \cup {0} : \A v \in widths \cup {0} : Max(w, v) = w

\* index of id in the sorted round
IndexIn(seq, id) == CHOOSE k \in 1..Len(seq) : seq[k] = id

\* node.x without the centering pass
NodeXUncentered(nodes, bestPath, id) ==
    LET round == MapValue(nodes, id).round_index
        sorted == SortedRound(nodes, bestPath, round)
        index == IndexIn(sorted, id) - 1
    IN  index * (NODE_WIDTH + NODE_SPACING) + NODE_WIDTH \div 2

\* node.x after the centering pass
NodeX(nodes, bestPath, id) ==
    LET round == MapValue(nodes, id).round_index
        sorted == SortedRound(nodes, bestPath, round)
        index == IndexIn(sorted, id) - 1
        offset == (MaxWidth(nodes) - RowWidth(Len(sorted))) \div 2
    IN  index * (NODE_WIDTH + NODE_SPACING) + NODE_WIDTH \div 2 + offset

\* a y taken from the level below the parent, for a node whose parent is in the map
NodeYFromParent(nodes, id) ==
    LET node == MapValue(nodes, id)
        level == IF node.parent_id \in Range(MapKeys(nodes))
                 THEN MapValue(nodes, node.parent_id).round_index + 1
                 ELSE node.round_index
    IN  level * LEVEL_HEIGHT + NODE_HEIGHT \div 2 + TOP_MARGIN

\* node.y
NodeY(nodes, id) ==
    MapValue(nodes, id).round_index * LEVEL_HEIGHT + NODE_HEIGHT \div 2 + TOP_MARGIN

\* the TreeNode of a key once the layout is computed
TreeNode(nodes, bestPath, id) ==
    LET node == MapValue(nodes, id)
    IN  [id |-> node.id, parent_id |-> node.parent_id, round_index |-> node.round_index,
         communication_tokens |-> node.communication_tokens, rule |-> node.rule,
         x |-> NodeX(nodes, bestPath, id), y |-> NodeY(nodes, id),
         children |-> Children(nodes, id)]

LayoutHeight(nodes) ==
    LET maxRound == CHOOSE r \in Rounds(nodes) : \A q \in Rounds(nodes) : q <= r
    IN  (maxRound + 1) * LEVEL_HEIGHT + HEIGHT_MARGIN

LayoutWidth(nodes) == Max(MaxWidth(nodes) + WIDTH_MARGIN, DEFAULT_WIDTH)

\* position of id in the best path, 0 when it is not on it
PathIndex(bestPath, id) ==
    IF id \in Range(bestPath) THEN CHOOSE i \in 1..Len(bestPath) : bestPath[i] = id ELSE 0

RECURSIVE TraverseEdgesAdjacent(_, _, _, _)
\* a traversal that flags an edge only when its ends follow each other in the path
TraverseEdgesAdjacent(nodes, bestPath, id, k) ==
    LET children == Children(nodes, id)
    IN  IF k > Len(children) THEN <<>>
        ELSE <<[from |-> id, to |-> children[k],
                isBestPath |-> /\ PathIndex(bestPath, id) > 0
                               /\ PathIndex(bestPath, children[k])
                                      = PathIndex(bestPath, id) + 1]>>
             \o TraverseEdgesAdjacent(nodes, bestPath, children[k], 1)
             \o TraverseEdgesAdjacent(nodes, bestPath, id, k + 1)

RECURSIVE TraverseEdgesShallow(_, _, _, _)
\* a traversal that stops at the children of the node it starts from
TraverseEdgesShallow(nodes, bestPath, id, k) ==
    LET children == Children(nodes, id)
    IN  IF k > Len(children) THEN <<>>
        ELSE <<[from |-> id, to |-> children[k],
                isBestPath |-> /\ id \in bestPathSet(bestPath)
                               /\ children[k] \in bestPathSet(bestPath)]>>
             \o TraverseEdgesShallow(nodes, bestPath, id, k + 1)

RECURSIVE TraverseEdges(_, _, _, _)
\* traverse(node) of the edges hook, from the k-th child of node on
TraverseEdges(nodes, bestPath, id, k) ==
    LET children == Children(nodes, id)
    IN  IF k > Len(children) THEN <<>>
        ELSE <<[from |-> id, to |-> children[k],
                isBestPath |-> /\ id \in bestPathSet(bestPath)
                               /\ children[k] \in bestPathSet(bestPath)]>>
             \o TraverseEdges(nodes, bestPath, children[k], 1)
             \o TraverseEdges(nodes, bestPath, id, k + 1)

\* a collection that renders every entry of the map, attached or not
TraverseNodesEveryEntry(nodes, id, k) ==
    IF k = 0 THEN MapKeys(nodes) ELSE <<>>

RECURSIVE TraverseNodesRevisits(_, _, _)
\* a traversal that pushes a node that has children again after them
TraverseNodesRevisits(nodes, id, k) ==
    LET children == Children(nodes, id)
    IN  IF k = 0 THEN <<id>> \o TraverseNodesRevisits(nodes, id, 1)
        ELSE IF k > Len(children) THEN (IF k > 1 THEN <<id>> ELSE <<>>)
        ELSE TraverseNodesRevisits(nodes, children[k], 0)
                 \o TraverseNodesRevisits(nodes, id, k + 1)

RECURSIVE TraverseNodes(_, _, _)
\* traverse(node) of the allNodes hook: node itself at k = 0, then its children
TraverseNodes(nodes, id, k) ==
    LET children == Children(nodes, id)
    IN  IF k = 0 THEN <<id>> \o TraverseNodes(nodes, id, 1)
        ELSE IF k > Len(children) THEN <<>>
        ELSE TraverseNodes(nodes, children[k], 0) \o TraverseNodes(nodes, id, k + 1)

\* a pass that returns early for the empty list only: without a root it still
\* positions the map entries and sizes the canvas after them
LayoutSizedWithoutRoot(nodes, bestPath) ==
    IF Len(nodes) = 0
    THEN [rendered |-> TRUE, treeRoot |-> NullStr,
          width |-> DEFAULT_WIDTH, height |-> DEFAULT_HEIGHT,
          tree |-> <<>>, edges |-> <<>>, allNodes |-> <<>>]
    ELSE LET keys == MapKeys(nodes)
             root == Root(nodes)
         IN  [rendered |-> TRUE, treeRoot |-> root,
              width |-> LayoutWidth(nodes), height |-> LayoutHeight(nodes),
              tree |-> [k \in 1..Len(keys) |-> TreeNode(nodes, bestPath, keys[k])],
              edges |-> IF root = NullStr THEN <<>>
                        ELSE TraverseEdges(nodes, bestPath, root, 1),
              allNodes |-> IF root = NullStr THEN <<>>
                           ELSE TraverseNodes(nodes, root, 0)]

\* what OptimizationTree derives from its props nodes and bestPath
Layout(nodes, bestPath) ==
    IF Len(nodes) = 0 \/ Root(nodes) = NullStr
    THEN [rendered |-> TRUE, treeRoot |-> NullStr,
          width |-> DEFAULT_WIDTH, height |-> DEFAULT_HEIGHT,
          tree |-> <<>>, edges |-> <<>>, allNodes |-> <<>>]
    ELSE LET keys == MapKeys(nodes)
         IN  [rendered |-> TRUE, treeRoot |-> Root(nodes),
              width |-> LayoutWidth(nodes), height |-> LayoutHeight(nodes),
              tree |-> [k \in 1..Len(keys) |-> TreeNode(nodes, bestPath, keys[k])],
              edges |-> TraverseEdges(nodes, bestPath, Root(nodes), 1),
              allNodes |-> TraverseNodes(nodes, Root(nodes), 0)]

\* a layout pass as remembered: its inputs and what it returned
Pass(nodes, bestPath, result) ==
    [rendered |-> TRUE, nodes |-> nodes, bestPath |-> bestPath, result |-> result]

----------------------------------------------------------------------------
(* Specification of the layout engine: one pass over every input of the     *)
(* bounded input sets                                                       *)

IdNames == <<"n0", "n1", "n2", "n3", "n4", "n5">>
TokenValues == {30, 50}
LayoutRounds == {0, 1}

\* an id that no node of an input list has
AbsentId == "absent"

\* what a node of an input list is made of besides its id: its parent is null,
\* any of the ids of a list of full length (itself, an earlier, a later or an
\* absent node) or the id no node has
NodeShapes ==
    [parent_id : {NullStr, AbsentId} \cup {IdNames[j] : j \in 1..MaxLayoutNodes},
     round_index : LayoutRounds,
     communication_tokens : TokenValues]

\* the flat node list of a sequence of shapes: the k-th node has the k-th id
LayoutList(shapes) ==
    [k \in 1..Len(shapes) |->
        [id |-> IdNames[k], parent_id |-> shapes[k].parent_id,
         round_index |-> shapes[k].round_index,
         communication_tokens |-> shapes[k].communication_tokens, rule |-> "rule"]]

\* best paths: the sequences without repetition of at most MaxPath ids
LayoutPaths ==
    UNION { {path \in [1..n -> {IdNames[j] : j \in 1..MaxLayoutNodes}] :
                \A i, j \in 1..n : i # j => path[i] # path[j]} : n \in 0..MaxPath }

LayoutInit ==
    /\ \E n \in 0..MaxLayoutNodes : \E shapes \in [1..n -> NodeShapes] :
          optNodes = LayoutList(shapes)
    /\ optBestPath \in LayoutPaths
    /\ protocol = defaultProtocol
    /\ events = <<>>
    /\ runResult = Null
    /\ runLoading = FALSE
    /\ runError = NullStr
    /\ streamCancelRef = 0
    /\ optLoading = FALSE
    /\ optError = NullStr
    /\ optCancelRef = 0
    /\ optBestNode = Null
    /\ optCurrentRound = 0
    /\ selectedOptNode = Null
    /\ runStreams = NoStreams
    /\ optStreams = NoStreams
    /\ runCalls = NoCalls
    /\ optCalls = NoCalls
    /\ optDelivered = {}
    /\ runRequest = Null
    /\ optRequest = Null
    /\ mounted = TRUE
    /\ ttsRequest = Null
    /\ ttsUpstream = Null
    /\ ttsResponse = Null
    /\ layout = NoLayout
    /\ firstLayout = NoLayout

\* a pass that lays out the nodes it was given instead of copies: the list
\* holds the positioned records afterwards
LayoutPassInPlace ==
    /\ mounted
    /\ ~layout.rendered
    /\ layout' = Layout(optNodes, optBestPath)
    /\ firstLayout' = Pass(optNodes, optBestPath, layout')
    /\ optNodes' = layout'.tree
    /\ UNCHANGED <<protocol, selectedOptNode>>
    /\ UNCHANGED <<optLoading, optError, optCancelRef, optBestPath, optBestNode,
                   optCurrentRound, optStreams, optCalls, optDelivered, optRequest>>
    /\ UNCHANGED runVars
    /\ UNCHANGED hostVars

\* one render of OptimizationTree: the three useMemo hooks run
LayoutPass ==
    /\ mounted
    /\ ~layout.rendered
    /\ layout' = Layout(optNodes, optBestPath)
    /\ firstLayout' = Pass(optNodes, optBestPath, layout')
    /\ UNCHANGED <<protocol, selectedOptNode>>
    /\ UNCHANGED optVars
    /\ UNCHANGED runVars
    /\ UNCHANGED hostVars

LayoutNext == LayoutPass

LayoutSpec == LayoutInit /\ [][LayoutNext]_vars

----------------------------------------------------------------------------
(* Specification of the rendered tree: an optimization run whose tree is    *)
(* laid out again and again while nodes arrive and nodes are clicked        *)

NodeC == [id |-> "n2", parent_id |-> "n0", round_index |-> 1,
          communication_tokens |-> 50, rule |-> "rule D"]

RenderOptEvents ==
    { [type |-> "base_evaluated", node |-> NodeA, best_path |-> <<"n0">>],
      [type |-> "candidate_evaluated", node |-> NodeB, round_index |-> 1],
      [type |-> "done", tree |-> <<NodeA, NodeB, NodeC>>, best_path |-> <<"n0", "n2">>,
       best_node |-> NodeC] }

\* a render of OptimizationTree with the current props; React schedules it
\* after the state updates, so several updates may precede one render
Render ==
    /\ mounted
    /\ layout' = Layout(optNodes, optBestPath)
    /\ firstLayout' = IF firstLayout.rendered THEN firstLayout
                      ELSE Pass(optNodes, optBestPath, layout')
    /\ UNCHANGED <<protocol, selectedOptNode>>
    /\ UNCHANGED optVars
    /\ UNCHANGED runVars
    /\ UNCHANGED hostVars

\* the TreeNode records the last render drew: those reached from treeRoot
RenderedNodes == {t \in Range(layout.tree) : t.id \in Range(layout.allNodes)}

\* a click on a drawn node: onNodeClick(node) with the TreeNode of the render
handleNodeClick(node) ==
    /\ mounted
    /\ selectedOptNode' =
          IF selectedOptNode # Null /\ selectedOptNode.id = node.id THEN Null ELSE node
    /\ UNCHANGED protocol
    /\ UNCHANGED optVars
    /\ UNCHANGED runVars
    /\ UNCHANGED layoutVars
    /\ UNCHANGED hostVars

RenderDeliver == \E s \in StreamIds : \E event \in RenderOptEvents : OptOnEvent(s, event)
NodeClick == layout.rendered /\ \E node \in RenderedNodes : handleNodeClick(node)

RenderNext ==
    \/ handleOptimize
    \/ RenderDeliver
    \/ NodeClick
    \/ Render

RenderSpec == Init /\ [][RenderNext]_vars

----------------------------------------------------------------------------
(* Specification of restarts: runs of both processes that leave nodes, a    *)
(* selected node, events, a result and errors behind, and are started again *)

\* the message-exchange stream delivers final events: each is logged and sets
\* the run result
RestartRunDeliver ==
    \E s \in StreamIds : RunOnEvent(s, [type |-> "final", message |-> "result", tokens |-> 7])

RestartNext ==
    \/ handleOptimize
    \/ RenderDeliver
    \/ OptFail
    \/ Render
    \/ NodeClick
    \/ handleRun
    \/ RestartRunDeliver
    \/ RunFail

RestartSpec == Init /\ [][RestartNext]_vars

----------------------------------------------------------------------------
(* Text-to-speech route: POST of app/api/tts/route.ts *)

\* a JavaScript string: its characters in order
Str(chars) == [string |-> chars]
Num(n) == [number |-> n]
Bool(b) == [boolean |-> b]
EmptyArray == [array |-> <<>>]
EmptyObject == [object |-> <<>>]
\* a JSON object that may have the properties POST reads; a property the
\* object does not have reads as undefined
Obj(text, voice_id, model_id, output_format) ==
    [object |-> [text |-> text, voice_id |-> voice_id, model_id |-> model_id,
                 output_format |-> output_format]]

IsString(v) == DOMAIN v = {"string"}
IsNullish(v) == v = Null \/ v = Undefined

Whitespace == {" "}

RECURSIVE TrimStart(_)
TrimStart(chars) ==
    IF chars # <<>> /\ Head(chars) \in Whitespace THEN TrimStart(Tail(chars)) ELSE chars

RECURSIVE TrimEnd(_)
TrimEnd(chars) ==
    IF chars # <<>> /\ chars[Len(chars)] \in Whitespace
    THEN TrimEnd(SubSeq(chars, 1, Len(chars) - 1))
    ELSE chars

\* String.prototype.trim
Trim(chars) == TrimEnd(TrimStart(chars))

\* !v is false: every value but undefined, null, "", 0 and false
Truthy(v) ==
    /\ ~IsNullish(v)
    /\ v # Str(<<>>)
    /\ v # Num(0)
    /\ v # Bool(FALSE)

\* a ?? b
Coalesce(a, b) == IF IsNullish(a) THEN b ELSE a

\* an exception that leaves POST: the handler returns no Response
Thrown(error) == [kind |-> "thrown", error |-> error]
\* Response.json({ detail }, { status })
JsonResponse(status, detail) == [kind |-> "json", status |-> status, detail |-> detail]
\* new Response(audioBuffer, { status: 200, headers })
AudioResponse(audio, contentType) ==
    [kind |-> "audio", status |-> 200, audio |-> audio, contentType |-> contentType]

DEFAULT_VOICE_ID == Str(<<"onwK4e9ZLuTAKqWW03F9">>)
DEFAULT_MODEL_ID == Str(<<"eleven_multilingual_v2">>)
DEFAULT_OUTPUT_FORMAT == Str(<<"mp3_44100_128">>)

\* body.name: a TypeError on null, undefined on a value that is not an object
Member(body, name) ==
    IF IsNullish(body) THEN Thrown("TypeError")
    ELSE IF DOMAIN body = {"object"} /\ body.object # <<>> THEN body.object[name]
    ELSE Undefined

\* v?.trim(): undefined for undefined and null, a TypeError for a value that
\* has no trim method
OptionalTrim(v) ==
    IF v = Thrown("TypeError") THEN v
    ELSE IF IsNullish(v) THEN Undefined
    ELSE IF IsString(v) THEN Str(Trim(v.string))
    ELSE Thrown("TypeError")

\* the request the handler builds for fetch
UpstreamRequest(apiKey, voiceId, outputFormat, text, modelId) ==
    [voiceId |-> voiceId,
     output_format |-> IF Truthy(outputFormat) THEN outputFormat ELSE Undefined,
     apiKey |-> apiKey,
     body |-> [text |-> text, model_id |-> modelId]]

\* POST up to the fetch: the Response it returns or the exception it throws
\* before, or the request it sends to the provider
Post(request) ==
    LET apiKey == request.env.ELEVENLABS_API_KEY
        body == request.body.value
        trimmed == OptionalTrim(Member(body, "text"))
        text == Coalesce(trimmed, Str(<<>>))
        voiceId == Coalesce(Coalesce(Member(body, "voice_id"),
                                     request.env.ELEVENLABS_VOICE_ID), DEFAULT_VOICE_ID)
        modelId == Coalesce(Coalesce(Member(body, "model_id"),
                                     request.env.ELEVENLABS_MODEL_ID), DEFAULT_MODEL_ID)
        outputFormat == Coalesce(Coalesce(Member(body, "output_format"),
                                          request.env.ELEVENLABS_OUTPUT_FORMAT),
                                 DEFAULT_OUTPUT_FORMAT)
    IN  IF ~Truthy(apiKey)
        THEN [response |-> JsonResponse(500, "ELEVENLABS_API_KEY is not set"),
              upstream |-> Null]
        ELSE IF ~request.body.json
        THEN [response |-> JsonResponse(400, "Invalid JSON payload"), upstream |-> Null]
        ELSE IF trimmed = Thrown("TypeError")
        THEN [response |-> trimmed, upstream |-> Null]
        ELSE IF ~Truthy(text)
        THEN [response |-> JsonResponse(400, "text is required"), upstream |-> Null]
        ELSE [response |-> Null,
              upstream |-> UpstreamRequest(apiKey, voiceId, outputFormat, text, modelId)]

\* the detail relayed for a reply that is not ok
UpstreamDetail(reply) ==
    IF reply.json /\ DOMAIN reply.value = {"object"} /\ IsString(reply.value.object.detail)
    THEN reply.value.object.detail
    ELSE IF reply.rawText # Str(<<>>) THEN reply.rawText
    ELSE Str(<<"ElevenLabs request failed">>)

\* POST after the fetch
Relay(reply) ==
    IF ~reply.ok
    THEN JsonResponse(reply.status, UpstreamDetail(reply))
    ELSE AudioResponse(reply.audio,
                       IF Truthy(reply.contentType) THEN reply.contentType
                       ELSE Str(<<"audio/mpeg">>))

----------------------------------------------------------------------------
(* Specification of the text-to-speech route: one request of the bounded    *)
(* input sets is handled                                                    *)

\* the strings of at most MaxText characters, of a blank and a letter
Texts == UNION {[1..n -> {" ", "a"}] : n \in 0..MaxText}

\* process.env as the handler reads it
TtsEnvs ==
    [ELEVENLABS_API_KEY : {Undefined, Str(<<>>), Str(<<"key">>)},
     ELEVENLABS_VOICE_ID : {Undefined, Str(<<"env voice">>)},
     ELEVENLABS_MODEL_ID : {Undefined, Str(<<"env model">>)},
     ELEVENLABS_OUTPUT_FORMAT : {Undefined}]

\* what the text property of a JSON object can be
TextValues ==
    {Undefined, Null, Num(0), Num(5), Bool(TRUE), EmptyArray, EmptyObject}
        \cup {Str(chars) : chars \in Texts}

\* the JSON values of a request body
JsonBodies ==
    {Null, Num(5), Bool(TRUE), Str(<<"a">>), EmptyArray, EmptyObject}
        \cup {Obj(text, voice_id, Undefined, output_format) :
                 text \in TextValues,
                 voice_id \in {Undefined, Str(<<"voice">>)},
                 output_format \in {Undefined, Str(<<>>)}}

\* a request body: text that JSON cannot parse, or the text of a JSON value
TtsBodies == {[json |-> FALSE, value |-> Undefined]}
                \cup {[json |-> TRUE, value |-> v] : v \in JsonBodies}

TtsRequests == [env : TtsEnvs, body : TtsBodies]

\* what the provider answers
UpstreamReplies ==
    {[ok |-> TRUE, status |-> 200, audio |-> "audio bytes", contentType |-> c,
      rawText |-> Str(<<>>), json |-> FALSE, value |-> Undefined] :
         c \in {Null, Str(<<"audio/wav">>)}}
    \cup {[ok |-> FALSE, status |-> 401, audio |-> "", contentType |-> Null,
           rawText |-> r.rawText, json |-> r.json, value |-> r.value] :
             r \in {[rawText |-> Str(<<>>), json |-> FALSE, value |-> Undefined],
                    [rawText |-> Str(<<"Unauthorized">>), json |-> FALSE, value |-> Undefined],
                    [rawText |-> Str(<<"{\"detail\":\"bad key\"}">>), json |-> TRUE,
                     value |-> [object |-> [detail |-> Str(<<"bad key">>)]]],
                    [rawText |-> Str(<<"{\"detail\":{}}">>), json |-> TRUE,
                     value |-> [object |-> [detail |-> EmptyObject]]],
                    [rawText |-> Str(<<"null">>), json |-> TRUE, value |-> Null]}}

TtsInit ==
    /\ protocol = defaultProtocol
    /\ events = <<>>
    /\ runResult = Null
    /\ runLoading = FALSE
    /\ runError = NullStr
    /\ streamCancelRef = 0
    /\ optLoading = FALSE
    /\ optError = NullStr
    /\ optCancelRef = 0
    /\ optNodes = <<>>
    /\ optBestPath = <<>>
    /\ optBestNode = Null
    /\ optCurrentRound = 0
    /\ selectedOptNode = Null
    /\ runStreams = NoStreams
    /\ optStreams = NoStreams
    /\ runCalls = NoCalls
    /\ optCalls = NoCalls
    /\ optDelivered = {}
    /\ runRequest = Null
    /\ optRequest = Null
    /\ mounted = TRUE
    /\ ttsRequest \in TtsRequests
    /\ ttsUpstream = Null
    /\ ttsResponse = Null
    /\ layout = NoLayout
    /\ firstLayout = NoLayout

TtsUnchanged ==
    /\ UNCHANGED <<protocol, selectedOptNode, mounted>>
    /\ UNCHANGED optVars
    /\ UNCHANGED runVars
    /\ UNCHANGED layoutVars

\* the handler runs up to its first Response, exception or fetch
POST ==
    /\ ttsResponse = Null /\ ttsUpstream = Null
    /\ ttsResponse' = Post(ttsRequest).response
    /\ ttsUpstream' = Post(ttsRequest).upstream
    /\ UNCHANGED ttsRequest
    /\ TtsUnchanged

\* the provider answers and the handler relays the answer
UpstreamAnswers ==
    /\ ttsUpstream # Null /\ ttsResponse = Null
    /\ \E reply \in UpstreamReplies : ttsResponse' = Relay(reply)
    /\ UNCHANGED <<ttsRequest, ttsUpstream>>
    /\ TtsUnchanged

\* fetch rejects: the exception leaves the handler
UpstreamUnreachable ==
    /\ ttsUpstream # Null /\ ttsResponse = Null
    /\ ttsResponse' = Thrown("fetch failed")
    /\ UNCHANGED <<ttsRequest, ttsUpstream>>
    /\ TtsUnchanged

TtsNext ==
    \/ POST
    \/ UpstreamAnswers
    \/ UpstreamUnreachable

TtsSpec == TtsInit /\ [][TtsNext]_vars

----------------------------------------------------------------------------
(* Claims about the Tree Reducer, checked under Spec *)

\* C1: handling candidate_evaluated appends event.node at the end of the
\* accumulated list: the length grows by one and every earlier node keeps its
\* position and content, also when the id of the node already occurs in the list.
C1_CandidateAppends ==
    [][\A s \in StreamIds : \A event \in CandidateEvaluated :
         OptOnEvent(s, event) =>
            /\ Len(optNodes') = Len(optNodes) + 1
            /\ optNodes'[Len(optNodes')] = event.node
            /\ \A i \in 1..Len(optNodes) : optNodes'[i] = optNodes[i]]_vars

\* a candidate was appended whose id the list already held, with other content
C1_Witness ==
    \E i, j \in 1..Len(optNodes) :
        /\ i < j
        /\ j = Len(optNodes)
        /\ optNodes[i].id = optNodes[j].id
        /\ optNodes[i] # optNodes[j]

\* C2: handling done leaves the accumulated list equal to event.tree, the best
\* path equal to event.best_path and the best node equal to event.best_node,
\* whatever was accumulated before.
C2_DoneReplaces ==
    [][\A s \in StreamIds : \A event \in Done :
         OptOnEvent(s, event) =>
            /\ optNodes' = event.tree
            /\ optBestPath' = event.best_path
            /\ optBestNode' = event.best_node]_vars

\* a done whose tree is shorter than the list accumulated before it has been
\* handled: the protocol text is only ever set by done
C2_Witness ==
    /\ protocol = "rule C"
    /\ optNodes = <<NodeA>>
    /\ optBestNode = NodeB2
    /\ optBestPath = <<"n0", "n1">>

\* C3: handling error(message) leaves the accumulated list, the best path, the
\* best node, the current round and the protocol text as they were and stores
\* message unmodified as the optimization error.
C3_ErrorKeepsState ==
    [][\A s \in StreamIds : \A event \in ErrorEvent :
         OptOnEvent(s, event) =>
            /\ UNCHANGED <<optNodes, optBestPath, optBestNode, optCurrentRound, protocol>>
            /\ optError' = event.message]_vars

\* an error arrived in the middle of a run
C3_Witness ==
    /\ optError = "rate limited"
    /\ optLoading
    /\ Len(optNodes) = MaxNodes
    /\ optCurrentRound = 1

\* C4: handling base_evaluated(node, best_path) leaves the accumulated list
\* equal to <<node>>, the best path equal to event.best_path, the best node equal
\* to node and the current round equal to 0, whatever the state was.
C4_BaseResets ==
    [][\A s \in StreamIds : \A event \in BaseEvaluated :
         OptOnEvent(s, event) =>
            /\ optNodes' = <<event.node>>
            /\ optBestPath' = event.best_path
            /\ optBestNode' = event.node
            /\ optCurrentRound' = 0]_vars

\* a base_evaluated whose best path is not the one-element path of its node
C4_Witness ==
    /\ optNodes = <<NodeB>>
    /\ optBestNode = NodeB
    /\ optBestPath = <<"n0">>
    /\ optCurrentRound = 0

----------------------------------------------------------------------------
(* Claims about the two processes, checked under PageSpec *)

\* the state of an optimization run and of a message-exchange run
optRunState == <<optNodes, optBestPath, optBestNode, optCurrentRound, optError, optLoading>>
runRunState == <<events, runResult, runError, runLoading>>

\* C10: starting a run while an earlier stream of the same process is open
\* cancels that stream before the state is reset (the loading flag set by the
\* handler stands), only the stream started last can be open, and no callback
\* of an earlier stream changes the state of the run.
C10_StaleStreamCancelled ==
    [][/\ \A s \in StreamIds : optStreams'[s] = "open" => s = optCancelRef'
       /\ \A s \in StreamIds : runStreams'[s] = "open" => s = streamCancelRef'
       /\ handleOptimize =>
             /\ optLoading'
             /\ optCancelRef \in StreamIds => optStreams'[optCancelRef] # "open"
       /\ handleRun =>
             /\ runLoading'
             /\ streamCancelRef \in StreamIds => runStreams'[streamCancelRef] # "open"
       /\ \A s \in StreamIds :
             (/\ s # optCancelRef
              /\ \/ \E event \in OptimizeStreamEvent : OptOnEvent(s, event)
                 \/ OptOnClose(s)
                 \/ \E message \in TransportErrors : OptOnError(s, message))
             => UNCHANGED optRunState
       /\ \A s \in StreamIds :
             (/\ s # streamCancelRef
              /\ \/ \E evt \in RunEvent : RunOnEvent(s, evt)
                 \/ RunOnClose(s)
                 \/ \E message \in TransportErrors : RunOnError(s, message))
             => UNCHANGED runRunState]_vars

\* both processes were restarted while their first stream was open, and the
\* second run of each has received events
C10_Witness ==
    /\ optStreams[1] = "cancelled" /\ optStreams[2] = "open"
    /\ runStreams[1] = "cancelled" /\ runStreams[2] = "open"
    /\ optNodes # <<>>
    /\ events # <<>>
    /\ optLoading /\ runLoading

----------------------------------------------------------------------------
(* Claims about the layout engine, checked under LayoutSpec *)

Ids(nodes) == {nodes[i].id : i \in 1..Len(nodes)}
DistinctIds(nodes) == \A i, j \in 1..Len(nodes) : i # j => nodes[i].id # nodes[j].id
OneNullParent(nodes) ==
    Cardinality({i \in 1..Len(nodes) : nodes[i].parent_id = NullStr}) = 1
ParentsResolve(nodes) ==
    \A i \in 1..Len(nodes) :
        nodes[i].parent_id # NullStr => nodes[i].parent_id \in Ids(nodes)

RECURSIVE Ancestor(_, _, _)
\* the node reached from id by following parent_id k times, NullStr once the
\* chain has left the list
Ancestor(nodes, id, k) ==
    IF id \notin Ids(nodes) THEN NullStr
    ELSE IF k = 0 THEN id
    ELSE Ancestor(nodes, MapValue(nodes, id).parent_id, k - 1)

\* following parent_id from every node ends at a node without parent
ReachRoot(nodes) ==
    \A i \in 1..Len(nodes) : Ancestor(nodes, nodes[i].id, Len(nodes)) = NullStr

EdgeTargets == {layout.edges[e].to : e \in 1..Len(layout.edges)}

\* C5 as stated: for distinct ids, exactly one null parent and every other
\* parent_id resolving in the list (no further restriction), the layout has
\* (number of nodes - 1) edges and exactly one node that no edge targets.
C5_AnyParentRelation ==
    (layout.rendered /\ DistinctIds(optNodes) /\ OneNullParent(optNodes)
        /\ ParentsResolve(optNodes))
    => /\ Len(layout.edges) = Len(optNodes) - 1
       /\ Cardinality(Ids(optNodes) \ EdgeTargets) = 1

\* C5 amended: the same, for lists in which in addition following parent_id
\* from every node leads to the null-parent node (no node is its own ancestor);
\* the node that no edge targets is the root.
C5_EdgesOfTree ==
    (layout.rendered /\ DistinctIds(optNodes) /\ OneNullParent(optNodes)
        /\ ParentsResolve(optNodes) /\ ReachRoot(optNodes))
    => /\ Len(layout.edges) = Len(optNodes) - 1
       /\ Ids(optNodes) \ EdgeTargets = {layout.treeRoot}
       /\ MapValue(optNodes, layout.treeRoot).parent_id = NullStr

\* a chain root - child - grandchild, given with the grandchild first, was laid out
C5_Witness ==
    /\ layout.rendered
    /\ Len(optNodes) = 3
    /\ optNodes[1].parent_id = optNodes[2].id
    /\ optNodes[2].parent_id = optNodes[3].id
    /\ optNodes[3].parent_id = NullStr
    /\ Len(layout.edges) = 2

\* C6: the best-path flag of every edge is true exactly when both its parent
\* id and its child id are members of the best-path ids, wherever they stand in
\* the sequence.
C6_FlagIsMembership ==
    layout.rendered =>
        \A e \in 1..Len(layout.edges) :
            layout.edges[e].isBestPath
              <=> (/\ \E i \in 1..Len(optBestPath) : optBestPath[i] = layout.edges[e].from
                   /\ \E j \in 1..Len(optBestPath) : optBestPath[j] = layout.edges[e].to)

\* a flagged edge whose child stands before its parent in the best path, with a
\* third id between them
C6_Witness ==
    /\ layout.rendered
    /\ \E e \in 1..Len(layout.edges) :
          /\ layout.edges[e].isBestPath
          /\ Len(optBestPath) = 3
          /\ optBestPath[1] = layout.edges[e].to
          /\ optBestPath[3] = layout.edges[e].from

\* the positioned records of one round
Row(round) == {t \in Range(layout.tree) : t.round_index = round}
RowRounds == {t.round_index : t \in Range(layout.tree)}
RowWidthOf(round) ==
    Cardinality(Row(round)) * NODE_WIDTH + (Cardinality(Row(round)) - 1) * NODE_SPACING
WidestRow == CHOOSE w \in {RowWidthOf(r) : r \in RowRounds} :
                 \A r \in RowRounds : RowWidthOf(r) <= w
LeftGap(round) ==
    (CHOOSE t \in Row(round) : \A u \in Row(round) : t.x <= u.x).x - NODE_WIDTH \div 2
RightGap(round) ==
    WidestRow
      - ((CHOOSE t \in Row(round) : \A u \in Row(round) : u.x <= t.x).x + NODE_WIDTH \div 2)

\* C8: every round is centered: the gap left of its leftmost node equals the gap
\* between its rightmost node and maxWidth, and both are (maxWidth - rowWidth)/2.
C8_RowsCentered ==
    (layout.rendered /\ layout.treeRoot # NullStr) =>
        \A round \in RowRounds :
            /\ LeftGap(round) = RightGap(round)
            /\ 2 * LeftGap(round) = WidestRow - RowWidthOf(round)

\* a round of one node was centered over a round of two
C8_Witness ==
    /\ layout.rendered /\ layout.treeRoot # NullStr
    /\ \E r, q \in RowRounds :
          /\ Cardinality(Row(r)) = 1
          /\ Cardinality(Row(q)) = 2
          /\ LeftGap(r) = (NODE_WIDTH + NODE_SPACING) \div 2
          /\ LeftGap(q) = 0

OnBestPath(t) == \E i \in 1..Len(optBestPath) : optBestPath[i] = t.id

\* C9: within a round every best-path node stands left of every other node,
\* and within each of the two groups a node with fewer tokens stands left of a
\* node with more.
C9_RoundOrder ==
    (layout.rendered /\ layout.treeRoot # NullStr) =>
        \A t, u \in Range(layout.tree) :
            t.round_index = u.round_index =>
                /\ (OnBestPath(t) /\ ~OnBestPath(u)) => t.x < u.x
                /\ (OnBestPath(t) = OnBestPath(u)
                      /\ t.communication_tokens < u.communication_tokens) => t.x < u.x

\* a round of three: a best-path node of 50 tokens, then the others with 30 and
\* 50 tokens, the 30-token node given last in the list
C9_Witness ==
    /\ layout.rendered /\ layout.treeRoot # NullStr
    /\ \E t, u, v \in Range(layout.tree) :
          /\ t.round_index = u.round_index /\ u.round_index = v.round_index
          /\ OnBestPath(t) /\ ~OnBestPath(u) /\ ~OnBestPath(v)
          /\ t.communication_tokens = 50
          /\ u.communication_tokens = 30
          /\ v.communication_tokens = 50
          /\ t.x < u.x /\ u.x < v.x
          /\ v.id = optNodes[1].id /\ t.id = optNodes[2].id /\ u.id = optNodes[3].id

\* place of id in the flat node list
ListIndex(id) == CHOOSE i \in 1..Len(optNodes) : optNodes[i].id = id

\* C28: of two nodes of a round that are in the same best-path group and have
\* equal communication_tokens, the one that occurs earlier in the flat node list
\* has the smaller x, whatever other nodes the list holds.
C28_TiesKeepListOrder ==
    (layout.rendered /\ layout.treeRoot # NullStr) =>
        \A t, u \in Range(layout.tree) :
            (/\ t.round_index = u.round_index
             /\ OnBestPath(t) = OnBestPath(u)
             /\ t.communication_tokens = u.communication_tokens
             /\ ListIndex(t.id) < ListIndex(u.id)) => t.x < u.x

\* a round of three off the best path: two nodes of 50 tokens given first, then
\* a node of 30 tokens, which is placed left of both without swapping them
C28_Witness ==
    /\ layout.rendered /\ layout.treeRoot # NullStr
    /\ Len(optNodes) = 3 /\ optBestPath = <<>>
    /\ \E t, u, v \in Range(layout.tree) :
          /\ t.id = optNodes[1].id /\ u.id = optNodes[2].id /\ v.id = optNodes[3].id
          /\ t.round_index = u.round_index /\ u.round_index = v.round_index
          /\ t.communication_tokens = 50 /\ u.communication_tokens = 50
          /\ v.communication_tokens = 30
          /\ v.x < t.x /\ t.x < u.x

\* number of nodes of the round of t that stand left of t
PlaceInRow(t) == Cardinality({u \in Row(t.round_index) : u.x < t.x})

\* C29: with NODE_WIDTH 140, SPACING 20, LEVEL_HEIGHT 160, NODE_HEIGHT 80 and
\* TOP_MARGIN 40, the k-th node of a round has
\* x = k*(NODE_WIDTH + SPACING) + NODE_WIDTH/2 + (maxWidth - rowWidth)/2 and
\* y = round_index*LEVEL_HEIGHT + NODE_HEIGHT/2 + TOP_MARGIN; y is equal within
\* a round and strictly increasing in round_index.
C29_Coordinates ==
    /\ NODE_WIDTH = 140 /\ NODE_SPACING = 20 /\ LEVEL_HEIGHT = 160
    /\ NODE_HEIGHT = 80 /\ TOP_MARGIN = 40
    /\ (layout.rendered /\ layout.treeRoot # NullStr) =>
          /\ \A t \in Range(layout.tree) :
                /\ 2 * t.x = 2 * PlaceInRow(t) * (NODE_WIDTH + NODE_SPACING) + NODE_WIDTH
                                + (WidestRow - RowWidthOf(t.round_index))
                /\ 2 * t.y = 2 * t.round_index * LEVEL_HEIGHT + NODE_HEIGHT + 2 * TOP_MARGIN
          /\ \A t, u \in Range(layout.tree) :
                /\ t.round_index = u.round_index => t.y = u.y
                /\ t.round_index < u.round_index => t.y < u.y

\* a root of round 1 with a child of round 0 and a child of round 1: the child
\* of round 0 stands above its parent, centered over the row of two
C29_Witness ==
    /\ layout.rendered /\ layout.treeRoot # NullStr
    /\ \E t, u, v \in Range(layout.tree) :
          /\ t.id = layout.treeRoot /\ t.round_index = 1
          /\ u.parent_id = t.id /\ u.round_index = 0
          /\ v.parent_id = t.id /\ v.round_index = 1
          /\ u.y = 80 /\ t.y = 240 /\ v.y = 240
          /\ u.x = 150 /\ {t.x, v.x} = {70, 230}

\* C30: for an empty flat node list, and for a list in which no node has
\* parent_id null, the pass returns without a root, a rendered node or an edge,
\* and with the canvas size 800 x 600.
C30_NoRootNothingDrawn ==
    (/\ layout.rendered
     /\ \/ Len(optNodes) = 0
        \/ \A i \in 1..Len(optNodes) : optNodes[i].parent_id # NullStr)
    => /\ layout.treeRoot = NullStr
       /\ layout.allNodes = <<>>
       /\ layout.edges = <<>>
       /\ layout.width = DEFAULT_WIDTH /\ DEFAULT_WIDTH = 800
       /\ layout.height = DEFAULT_HEIGHT /\ DEFAULT_HEIGHT = 600

\* a list of three nodes, each with a parent in the list and one its own
\* parent, was passed: nothing is drawn on the default canvas
C30_Witness ==
    /\ layout.rendered /\ Len(optNodes) = 3
    /\ optNodes[1].parent_id = optNodes[1].id
    /\ optNodes[2].parent_id = optNodes[1].id
    /\ optNodes[3].parent_id = optNodes[2].id
    /\ layout.treeRoot = NullStr /\ layout.allNodes = <<>>
    /\ layout.width = 800 /\ layout.height = 600

----------------------------------------------------------------------------
(* Claims about the rendered tree, checked under RenderSpec *)

----------------------------------------------------------------------------
(* Further claims about the Tree Reducer, checked under Spec *)

\* every id of the path is the id of a node of the list
PathInList(path, nodes) == \A i \in 1..Len(path) : path[i] \in Ids(nodes)

\* C13 as stated: in every reachable state, after any sequence of events, every
\* id in the stored best path is the id of a node in the accumulated list.
C13_BestPathInList == PathInList(optBestPath, optNodes)

\* the best path of the event names only nodes that are in the accumulated list
\* once the event is handled
PathOfProducer(event) ==
    CASE event.type = "base_evaluated" -> PathInList(event.best_path, <<event.node>>)
      [] event.type = "best_updated" -> PathInList(event.best_path, optNodes)
      [] event.type = "done" -> PathInList(event.best_path, event.tree)
      [] OTHER -> TRUE

\* C13 amended: handling an event whose best path names only nodes that are in
\* the accumulated list once the event is handled keeps every id of the stored
\* best path among the ids of the accumulated list (a step that loses the
\* property handles an event whose path names another node); so does starting
\* a run.
C13_BestPathInListOfProducer ==
    [][/\ (PathInList(optBestPath, optNodes) /\ ~PathInList(optBestPath', optNodes'))
             => \A s \in StreamIds : \A event \in OptimizeStreamEvent :
                    OptOnEvent(s, event) => ~PathOfProducer(event)
       /\ handleOptimize => PathInList(optBestPath', optNodes')]_vars

\* a second base_evaluated of one stream replaced a two-node list and its
\* two-node best path by its own node and path
C13_Witness ==
    /\ optStreams[1] = "open"
    /\ optNodes = <<NodeA>>
    /\ optBestPath = <<"n0">>
    /\ optBestNode = NodeA
    /\ protocol = "rule B"

\* C15: handling candidate_evaluated(node, round_index) sets the current round
\* to round_index and leaves the best path and the best node as they were,
\* whatever the token cost of the node.
C15_CandidateKeepsBest ==
    [][\A s \in StreamIds : \A event \in CandidateEvaluated :
         OptOnEvent(s, event) =>
            /\ optCurrentRound' = event.round_index
            /\ UNCHANGED <<optBestPath, optBestNode>>]_vars

\* a candidate of 30 tokens arrived while the best node costs 120
C15_Witness ==
    /\ optNodes = <<NodeA, NodeB2>>
    /\ optBestNode = NodeA
    /\ optBestPath = <<"n0">>
    /\ optCurrentRound = 1

\* C16: handling best_updated(node, best_path) leaves the best path equal to
\* event.best_path and the best node equal to event.node, and leaves the
\* accumulated list and the current round as they were, also when event.node
\* is not in the accumulated list.
C16_BestUpdatedReplaces ==
    [][\A s \in StreamIds : \A event \in BestUpdated :
         OptOnEvent(s, event) =>
            /\ optBestPath' = event.best_path
            /\ optBestNode' = event.node
            /\ UNCHANGED <<optNodes, optCurrentRound>>]_vars

\* best_updated named a node that the accumulated list does not hold; no done
\* has been handled
C16_Witness ==
    /\ optNodes = <<NodeA>>
    /\ optBestNode = NodeB
    /\ optBestPath = <<"n0", "n1">>
    /\ protocol = defaultProtocol

----------------------------------------------------------------------------
(* Further claims about the layout engine, checked under LayoutSpec *)

\* the nodes whose parent_id is the id of no node of the list
Orphans(nodes) ==
    {nodes[i].id : i \in {k \in 1..Len(nodes) :
        nodes[k].parent_id # NullStr /\ nodes[k].parent_id \notin Ids(nodes)}}

\* the nodes from which following parent_id leads to the root
ReachableFromRoot(nodes, root) ==
    {id \in Ids(nodes) : \E k \in 0..Len(nodes) : Ancestor(nodes, id, k) = root}

EdgeEnds ==
    {layout.edges[e].from : e \in 1..Len(layout.edges)} \cup EdgeTargets

\* C14: for a list that contains a root, a node whose parent_id is the id of no
\* node of the list is neither among the rendered nodes nor an endpoint of an
\* edge, and the layout returns a result whose rendered nodes are the nodes
\* reachable from the root.
C14_OrphansExcluded ==
    (layout.rendered /\ \E i \in 1..Len(optNodes) : optNodes[i].parent_id = NullStr)
    => /\ layout.treeRoot # NullStr
       /\ Orphans(optNodes) \cap Range(layout.allNodes) = {}
       /\ Orphans(optNodes) \cap EdgeEnds = {}
       /\ Range(layout.allNodes) = ReachableFromRoot(optNodes, layout.treeRoot)

\* a root and an orphan that has a child of its own: the root alone is rendered
C14_Witness ==
    /\ layout.rendered
    /\ Len(optNodes) = 3
    /\ Cardinality(Orphans(optNodes)) = 1
    /\ \E i \in 1..Len(optNodes) : optNodes[i].parent_id \in Orphans(optNodes)
    /\ Len(layout.allNodes) = 1
    /\ Len(layout.edges) = 0

----------------------------------------------------------------------------
(* Claims about the Run Reducer, checked under RunSpec *)

\* C18: during a run the event log is append-only and in arrival order: every
\* delivered event becomes the last entry of the log with all earlier entries
\* in place, and neither onClose nor onError changes the log; so after the k-th
\* delivered event the log is the sequence of the first k events.
C18_LogAppendOnly ==
    [][/\ \A s \in StreamIds : \A evt \in RunEvent :
             RunOnEvent(s, evt) =>
                /\ Len(events') = Len(events) + 1
                /\ events'[Len(events')] = evt
                /\ \A i \in 1..Len(events) : events'[i] = events[i]
       /\ (RunClose \/ RunFail) => UNCHANGED events]_vars

\* two events of the same direction are in the log, in arrival order
C18_Witness ==
    /\ Len(events) = 2
    /\ events[1].type = "agent_message" /\ events[2].type = "agent_message"
    /\ events[1].direction = "outbound" /\ events[2].direction = "outbound"
    /\ events[1].message = "ask" /\ events[2].message = "ask again"

\* the positions of the log that hold an agent message of the direction
ArrivalsOf(direction) ==
    {i \in 1..Len(events) :
        events[i].type = "agent_message" /\ events[i].direction = direction}

\* the message is the agent message of the direction that arrived last, or
\* undefined when none has arrived
IsLatestArrival(message, direction) ==
    IF ArrivalsOf(direction) = {} THEN message = Undefined
    ELSE \E i \in ArrivalsOf(direction) :
            /\ \A j \in ArrivalsOf(direction) : j <= i
            /\ message = events[i]

\* C19: at every point of a run the message presented for outbound (return) is
\* the agent message of that direction that arrived last, or none when none has
\* arrived; an arrival that is not of a direction leaves the message presented
\* for that direction as it is.
C19_LatestPerDirection ==
    /\ [](/\ IsLatestArrival(outboundMessage, "outbound")
          /\ IsLatestArrival(returnMessage, "return"))
    /\ [][\A s \in StreamIds : \A evt \in RunEvent :
             RunOnEvent(s, evt) =>
                /\ (evt.type = "agent_message" /\ evt.direction = "outbound")
                      => returnMessage' = returnMessage
                /\ (evt.type = "agent_message" /\ evt.direction = "return")
                      => outboundMessage' = outboundMessage
                /\ evt.type = "final"
                      => /\ returnMessage' = returnMessage
                         /\ outboundMessage' = outboundMessage]_vars

\* a second outbound message has superseded the first; no return message yet
C19_Witness ==
    /\ Len(events) = 2
    /\ outboundMessage # Undefined
    /\ outboundMessage = events[2]
    /\ events[1].type = "agent_message" /\ events[1].direction = "outbound"
    /\ events[1] # events[2]
    /\ returnMessage = Undefined

\* C20: handling a final event leaves a run result whose final text is the
\* message of the event and whose token count is the tokens of the event, 0
\* when the event has no tokens field.
C20_FinalStored ==
    [][\A s \in StreamIds : \A evt \in FinalEvent :
         RunOnEvent(s, evt) =>
            /\ runResult'.final = evt.message
            /\ "tokens" \in DOMAIN evt => runResult'.communicationTokens = evt.tokens
            /\ "tokens" \notin DOMAIN evt => runResult'.communicationTokens = 0]_vars

\* a final event without tokens field was handled after a message
C20_Witness ==
    /\ Len(events) = 2
    /\ events[2].type = "final"
    /\ "tokens" \notin DOMAIN events[2]
    /\ runResult # Null
    /\ runResult.final = "result"
    /\ runResult.communicationTokens = 0

----------------------------------------------------------------------------
(* Claims about the protocol text, checked under ProtocolSpec *)

\* C17: handling done leaves the protocol text equal to done.best_node.rule;
\* every request a process opens carries the protocol text of that moment; and
\* the text changes only when done is handled or the user edits it, so
\* base_evaluated, candidate_evaluated, best_updated and error never change it
\* and every request opened after a done carries its rule until then.
C17_ProtocolAdopted ==
    [][/\ \A s \in StreamIds : \A event \in OptimizeStreamEvent :
             OptOnEvent(s, event) =>
                /\ event.type = "done" => protocol' = event.best_node.rule
                /\ event.type # "done" => protocol' = protocol
       /\ handleRun => runRequest' = [protocol |-> protocol]
       /\ handleOptimize => optRequest' = [protocol |-> protocol]
       /\ protocol' # protocol =>
             \/ ProtocolEdit
             \/ \E s \in StreamIds : \E event \in Done : OptOnEvent(s, event)]_vars

\* after a done with rule B and a best_updated on the same stream, a
\* message-exchange request and a second optimization request were opened, both
\* carrying rule B
C17_Witness ==
    /\ protocol = "rule B"
    /\ optStreams[1] = "cancelled" /\ optStreams[2] = "open"
    /\ 1 \in optDelivered
    /\ optRequest = [protocol |-> "rule B"]
    /\ runRequest = [protocol |-> "rule B"]

----------------------------------------------------------------------------
(* Claims about the stream sessions, checked under PageSpec *)

Ended == {"closed", "cancelled"}

\* calling the handle of session ref once more, after it was called: the
\* sessions and the callbacks invoked stay as the first call left them
SecondCancelIdle(streams, calls, ref) ==
    LET once == CancelStream(streams, ref)
        callsOnce == CancelCalls(calls, streams, ref)
    IN  /\ CancelStream(once, ref) = once
        /\ ~CancelCloses(once, ref)
        /\ CancelCalls(callsOnce, once, ref) = callsOnce

\* C11: a session whose cancellation handle is called before any event has
\* arrived never invokes onEvent; calling the handle of a session whose onClose
\* has fired (handleOptimize and handleRun do so with the handle they hold)
\* leaves the session and the callbacks it has invoked as they are, and so does
\* a second call of a handle in every state.
C11_CancelSilences ==
    /\ [](\A s \in StreamIds :
             /\ SecondCancelIdle(optStreams, optCalls, s)
             /\ SecondCancelIdle(runStreams, runCalls, s))
    /\ [][/\ \A s \in StreamIds :
                (optStreams[s] = "cancelled" /\ s \notin optDelivered)
                => s \notin optDelivered'
          /\ \A s \in StreamIds :
                optStreams[s] \in Ended
                => /\ optStreams'[s] = optStreams[s]
                   /\ optCalls'[s] = optCalls[s]
                   /\ (s \in optDelivered') = (s \in optDelivered)
          /\ \A s \in StreamIds :
                runStreams[s] \in Ended
                => /\ runStreams'[s] = runStreams[s]
                   /\ runCalls'[s] = runCalls[s]]_vars

\* the first optimization stream was cancelled before any event arrived and the
\* second has received events; the first message-exchange stream had completed
\* when handleRun called its handle and opened the second
C11_Witness ==
    /\ optStreams[1] = "cancelled" /\ 1 \notin optDelivered
    /\ optStreams[2] = "open" /\ 2 \in optDelivered
    /\ runStreams[1] = "closed" /\ runCalls[1].onClose = 1
    /\ runError = NullStr
    /\ runStreams[2] = "open" /\ streamCancelRef = 2

\* C12: every session that has ended, by completion, by an error or by
\* cancellation, has invoked onClose exactly once, a session that has not ended
\* has not invoked it, and no session has invoked onEvent or onError after its
\* onClose.
C12_OnCloseOnce ==
    \A s \in StreamIds :
        /\ runStreams[s] \in Ended => runCalls[s].onClose = 1
        /\ runStreams[s] \notin Ended => runCalls[s].onClose = 0
        /\ ~runCalls[s].late
        /\ optStreams[s] \in Ended => optCalls[s].onClose = 1
        /\ optStreams[s] \notin Ended => optCalls[s].onClose = 0
        /\ ~optCalls[s].late

\* the first message-exchange stream was cancelled after an event, the second
\* ended with an error; the first optimization stream completed
C12_Witness ==
    /\ runStreams[1] = "cancelled" /\ runCalls[1].onClose = 1
    /\ runStreams[2] = "closed" /\ runCalls[2].onClose = 1
    /\ runError = "network error"
    /\ events # <<>>
    /\ optStreams[1] = "closed" /\ optCalls[1].onClose = 1
    /\ optError = NullStr

----------------------------------------------------------------------------
(* Claims about the end of an optimization run, checked under Spec *)

\* C21 as stated: once done or a domain error event has been handled the
\* loading flag is false, and a flag that is false becomes true only by
\* handleOptimize.
C21_TerminalEventStopsRun ==
    [][/\ \A s \in StreamIds : \A event \in Done \cup ErrorEvent :
             OptOnEvent(s, event) => ~optLoading'
       /\ (~optLoading /\ optLoading') => handleOptimize]_vars

\* C23 as stated: after a domain error event has been handled in a run, no
\* event delivered on the same stream changes the accumulated list, the best
\* path, the best node or the current round.
C23_ErrorStopsUpdates ==
    [][\A s \in StreamIds : \A event \in OptimizeStreamEvent :
         (OptOnEvent(s, event) /\ optError \in EventErrors) => UNCHANGED treeVars]_vars

----------------------------------------------------------------------------
(* Claims about the life of the page, checked under LifeSpec *)

\* C22: a domain error event and onError store their message as the error of
\* the process; a stored error changes only by a later error, which replaces
\* it, or by the start of a new run of the process, which clears it: no other
\* event and no onClose touches it.
C22_ErrorRetained ==
    [][/\ \A s \in StreamIds : \A event \in ErrorEvent :
             OptOnEvent(s, event) => optError' = event.message
       /\ \A s \in StreamIds : \A message \in TransportErrors :
             /\ OptOnError(s, message) => optError' = message
             /\ RunOnError(s, message) => runError' = message
       /\ optError' # optError =>
             \/ handleOptimize /\ optError' = NullStr
             \/ \E s \in StreamIds : \E event \in ErrorEvent : OptOnEvent(s, event)
             \/ OptFail
       /\ runError' # runError =>
             \/ handleRun /\ runError' = NullStr
             \/ RunFail]_vars

\* the error of an optimization run that also received done and was closed is
\* still stored; so is the transport error of a message-exchange run
C22_Witness ==
    /\ optError = "rate limited"
    /\ optStreams[1] = "closed" /\ ~optLoading
    /\ protocol = "rule B"
    /\ optBestPath = <<"n0", "n1">>
    /\ runError = "network error"
    /\ events # <<>>

----------------------------------------------------------------------------
(* Claims about restarts, checked under RestartSpec *)

\* C24: right after handleOptimize the accumulated list and the best path are
\* empty, the best node and the selected node are null, the current round is 0
\* and the error is cleared; right after handleRun the event log is empty and
\* the run result and the run error are cleared; whatever the state was.
C24_RestartDiscards ==
    [][/\ handleOptimize =>
             /\ optNodes' = <<>>
             /\ optBestPath' = <<>>
             /\ optBestNode' = Null
             /\ selectedOptNode' = Null
             /\ optCurrentRound' = 0
             /\ optError' = NullStr
       /\ handleRun =>
             /\ events' = <<>>
             /\ runResult' = Null
             /\ runError' = NullStr]_vars

\* a second optimization run was started over a rendered tree with a selected
\* node, and a second message-exchange run over a run that had delivered
\* events: the tree drawn last still shows the three nodes of the first run
C24_Witness ==
    /\ optStreams[1] = "cancelled" /\ 1 \in optDelivered
    /\ optStreams[2] = "open" /\ optRequest # Null
    /\ layout.rendered /\ Len(layout.allNodes) = 3
    /\ optNodes = <<>> /\ selectedOptNode = Null
    /\ runStreams[1] = "cancelled" /\ runStreams[2] = "open" /\ runRequest # Null
    /\ events = <<>> /\ runResult = Null

----------------------------------------------------------------------------
(* Claims about teardown and transport failures, checked under LifeSpec *)

Opens(before, after) == \E s \in StreamIds : after[s] = "open" /\ before[s] # "open"

\* C25: the step that unmounts the component cancels every stream that is open,
\* of the message exchange and of the optimization: right after it no stream is
\* open, and from then on no stream changes and no callback is counted.
C25_TeardownCancels ==
    [][/\ (mounted /\ ~mounted') =>
             \A s \in StreamIds :
                /\ runStreams'[s] = IF runStreams[s] = "open" THEN "cancelled" ELSE runStreams[s]
                /\ optStreams'[s] = IF optStreams[s] = "open" THEN "cancelled" ELSE optStreams[s]
       /\ ~mounted =>
             /\ \A s \in StreamIds : runStreams[s] # "open" /\ optStreams[s] # "open"
             /\ UNCHANGED <<runStreams, optStreams, runCalls, optCalls, optDelivered>>
             /\ UNCHANGED <<events, runResult, runError, optError>>
             /\ UNCHANGED treeVars]_vars

\* the component was unmounted while both streams were open: both were the
\* second stream of their process, and each ran onClose once
C25_Witness ==
    /\ ~mounted
    /\ streamCancelRef = 2 /\ runStreams[2] = "cancelled" /\ runCalls[2].onClose = 1
    /\ optCancelRef = 2 /\ optStreams[2] = "cancelled" /\ optCalls[2].onClose = 1
    /\ 2 \in optDelivered /\ events # <<>>

\* C26: onError stores the message of the failure as the error of its process
\* and sets its loading flag to false, leaves the node list, the best path, the
\* best node and the event log as they are, and opens no stream; a stream is
\* opened only by handleRun or handleOptimize.
C26_TransportFailure ==
    [][/\ \A s \in StreamIds : \A message \in TransportErrors :
             /\ OptOnError(s, message) =>
                   /\ optError' = message /\ ~optLoading'
                   /\ UNCHANGED <<optNodes, optBestPath, optBestNode, events>>
             /\ RunOnError(s, message) =>
                   /\ runError' = message /\ ~runLoading'
                   /\ UNCHANGED <<optNodes, optBestPath, optBestNode, events>>
       /\ Opens(optStreams, optStreams') => handleOptimize
       /\ Opens(runStreams, runStreams') => handleRun]_vars

\* both processes failed with accumulated state: the optimization after a base
\* and a candidate, the message exchange after an event, and nothing is open
C26_Witness ==
    /\ optError = "network error" /\ ~optLoading /\ Len(optNodes) = 2
    /\ optBestPath = <<"n0">>
    /\ runError = "network error" /\ ~runLoading /\ events # <<>>
    /\ \A s \in StreamIds : runStreams[s] # "open" /\ optStreams[s] # "open"
    /\ mounted

----------------------------------------------------------------------------
(* Claims about the text-to-speech route, checked under TtsSpec *)

Answered == ttsResponse # Null \/ ttsUpstream # Null

\* the body is a JSON value with a text that is a string with a character that
\* is not whitespace
HasText(body) ==
    /\ body.json
    /\ DOMAIN body.value = {"object"}
    /\ body.value.object # <<>>
    /\ IsString(body.value.object.text)
    /\ \E i \in 1..Len(body.value.object.text.string) :
          body.value.object.text.string[i] \notin Whitespace

\* C27: once a request is handled: without a configured credential the
\* response is status 500 with the fixed detail, whatever the body; with the
\* credential and a body that is not JSON, or is a JSON value without a
\* non-empty text, the response is status 400 with a detail; and in all these
\* cases nothing was sent to the provider.
C27_RejectedBeforeProvider ==
    Answered =>
        /\ ~Truthy(ttsRequest.env.ELEVENLABS_API_KEY) =>
              /\ ttsResponse = JsonResponse(500, "ELEVENLABS_API_KEY is not set")
              /\ ttsUpstream = Null
        /\ (Truthy(ttsRequest.env.ELEVENLABS_API_KEY) /\ ~HasText(ttsRequest.body)) =>
              /\ ttsResponse # Null
              /\ ttsResponse.kind = "json"
              /\ ttsResponse.status = 400
              /\ ttsUpstream = Null

----------------------------------------------------------------------------
(* Claims about the growth of the node list, checked under Spec *)

IsPrefix(a, b) == Len(a) <= Len(b) /\ SubSeq(b, 1, Len(a)) = a

\* C31 as stated: within one optimization run (no handleOptimize in between),
\* after every handled event the previous node list is a prefix of the new one.
C31_GrowsMonotonically ==
    [][optCancelRef' = optCancelRef => IsPrefix(optNodes, optNodes')]_vars

\* C31 amended: within one run the node list changes only by an event; a
\* candidate_evaluated appends its node, so the previous list is a prefix of
\* the new one and one shorter; the only other changes are base_evaluated,
\* which replaces the list by its node, and done, which replaces it by its tree.
C31_GrowsUntilReplaced ==
    [][(optCancelRef' = optCancelRef /\ optNodes' # optNodes) =>
          \/ /\ IsPrefix(optNodes, optNodes') /\ Len(optNodes') = Len(optNodes) + 1
             /\ \E s \in StreamIds : \E event \in CandidateEvaluated :
                   OptOnEvent(s, event) /\ optNodes' = Append(optNodes, event.node)
          \/ \E s \in StreamIds : \E event \in BaseEvaluated :
                OptOnEvent(s, event) /\ optNodes' = <<event.node>>
          \/ \E s \in StreamIds : \E event \in Done :
                OptOnEvent(s, event) /\ optNodes' = event.tree]_vars

\* a done with a tree of one node arrived after a candidate of round 1: the
\* list of two nodes was replaced by a shorter one within the run
C31_Witness ==
    /\ optCurrentRound = 1 /\ optNodes = <<NodeA>>
    /\ optBestNode = NodeB /\ protocol = "rule B"
    /\ optCancelRef = 1 /\ optStreams[1] = "open"

----------------------------------------------------------------------------
(* Claims about the inputs of the layout engine, checked under LayoutSpec *)

NodeFields == {"id", "parent_id", "round_index", "communication_tokens", "rule"}

\* C32: a layout pass leaves the flat node list as it was, in length, order and
\* the fields and values of every node (no x, y or children added), and leaves
\* the best path as it was.
C32_InputsUntouched ==
    [][LayoutPass =>
          /\ Len(optNodes') = Len(optNodes)
          /\ \A i \in 1..Len(optNodes) :
                /\ optNodes'[i] = optNodes[i]
                /\ DOMAIN optNodes'[i] = NodeFields
          /\ optBestPath' = optBestPath]_vars

\* a list whose second round holds 50 tokens before 30 was laid out: the sort
\* placed the third node left of the second, and the list still has its order
C32_Witness ==
    /\ layout.rendered /\ layout.treeRoot = "n0"
    /\ Len(optNodes) = 3 /\ optBestPath = <<"n0", "n2">>
    /\ optNodes[2].id = "n1" /\ optNodes[2].communication_tokens = 50
    /\ optNodes[3].id = "n2" /\ optNodes[3].communication_tokens = 30
    /\ optNodes[2].round_index = 1 /\ optNodes[3].round_index = 1
    /\ layout.tree[3].x < layout.tree[2].x
    /\ firstLayout.nodes = optNodes

----------------------------------------------------------------------------
(* Claims about the shape of the rendered structure, checked under LayoutSpec *)

EdgesInto(id) == {e \in 1..Len(layout.edges) : layout.edges[e].to = id}
NoRepeat(seq) == \A i, j \in 1..Len(seq) : seq[i] = seq[j] => i = j
SelfParents(nodes) == {nodes[i].id : i \in {k \in 1..Len(nodes) : nodes[k].parent_id = nodes[k].id}}
NullParents(nodes) == {nodes[i].id : i \in {k \in 1..Len(nodes) : nodes[k].parent_id = NullStr}}

\* C33: whenever a root is found, the rendered structure is a tree: the rendered
\* nodes are exactly the nodes from which parent_id links lead to the root, every
\* rendered node but the root is the target of exactly one edge and the root of
\* none, both ends of every edge are rendered, and there is one edge less than
\* there are rendered nodes.
C33_RenderedIsTree ==
    (layout.rendered /\ layout.treeRoot # NullStr) =>
        /\ Range(layout.allNodes) = ReachableFromRoot(optNodes, layout.treeRoot)
        /\ \A id \in Range(layout.allNodes) :
              Cardinality(EdgesInto(id)) = IF id = layout.treeRoot THEN 0 ELSE 1
        /\ EdgeEnds \subseteq Range(layout.allNodes)
        /\ Len(layout.edges) = Cardinality(Range(layout.allNodes)) - 1

\* two null-parent nodes and a node that is its own parent: the later of the
\* two is the root and is rendered alone
C33_Witness ==
    /\ layout.rendered /\ Len(optNodes) = 3
    /\ Cardinality(NullParents(optNodes)) = 2
    /\ Cardinality(SelfParents(optNodes)) = 1
    /\ layout.treeRoot = "n2"
    /\ layout.allNodes = <<"n2">> /\ layout.edges = <<>>

\* C34: the traversals end for every flat node list: the pass over a list
\* that is not laid out yet returns a result, and in the result of a pass no
\* node is collected twice and no node is the target of two edges, so neither
\* traversal is longer than the list.
C34_TraversalsEnd ==
    /\ ~layout.rendered => Layout(optNodes, optBestPath).rendered
    /\ layout.rendered =>
          /\ NoRepeat(layout.allNodes)
          /\ NoRepeat([e \in 1..Len(layout.edges) |-> layout.edges[e].to])
          /\ Len(layout.allNodes) <= Len(optNodes)
          /\ Len(layout.edges) <= Len(optNodes)

\* a root with a child, and a node that names itself as parent: the pass ended
\* with the root and its child, the third node never visited
C34_Witness ==
    /\ layout.rendered /\ Len(optNodes) = 3
    /\ layout.treeRoot = "n0"
    /\ optNodes[2].parent_id = "n0"
    /\ optNodes[3].parent_id = "n2"
    /\ layout.allNodes = <<"n0", "n1">>
    /\ Len(layout.edges) = 1

----------------------------------------------------------------------------
(* Claims about nodes outside the rendered tree, checked under LayoutSpec *)

\* the list without its i-th node
Without(nodes, i) == SubSeq(nodes, 1, i - 1) \o SubSeq(nodes, i + 1, Len(nodes))

\* the positioned record of id in a layout
Placed(result, id) == CHOOSE t \in Range(result.tree) : t.id = id

\* C35: a node of the list that is not rendered has no effect on the layout of
\* the rendered nodes: the pass over the list without it gives every rendered
\* node the same x and y and the canvas the same width and height.
C35_ExcludedHaveNoEffect ==
    (layout.rendered /\ layout.treeRoot # NullStr) =>
        \A i \in 1..Len(optNodes) :
            optNodes[i].id \notin Range(layout.allNodes) =>
                LET without == Layout(Without(optNodes, i), optBestPath)
                IN  /\ without.allNodes = layout.allNodes
                    /\ \A id \in Range(layout.allNodes) :
                          /\ Placed(without, id).x = Placed(layout, id).x
                          /\ Placed(without, id).y = Placed(layout, id).y
                    /\ without.width = layout.width
                    /\ without.height = layout.height

----------------------------------------------------------------------------
(* Claims about the selected node, checked under RenderSpec *)

\* C36: in every reachable state the selected node is null or has the id of a
\* node of the accumulated node list.
C36_SelectedInList ==
    selectedOptNode = Null \/ selectedOptNode.id \in Ids(optNodes)

----------------------------------------------------------------------------
(* Claims about the loading flags, checked under LifeSpec *)

\* the stream opened last by a process is open
LatestOpen(streams, ref) == ref # 0 /\ streams[ref] = "open"

\* C37: for each process the loading flag is true exactly in the states in
\* which the stream it opened last is open, that is from the start of the run
\* until onClose or onError of that stream, and false from then until the next
\* run; no stream opened earlier is open beside it, and no callback has run on
\* a stream after its onClose.
C37_LoadingWhileLatestOpen ==
    /\ optLoading <=> LatestOpen(optStreams, optCancelRef)
    /\ runLoading <=> LatestOpen(runStreams, streamCancelRef)
    /\ \A s \in StreamIds :
          /\ optStreams[s] = "open" => s = optCancelRef
          /\ runStreams[s] = "open" => s = streamCancelRef
          /\ ~optCalls[s].late /\ ~runCalls[s].late

\* the optimization was started again over an open stream, which was cancelled
\* and ran its onClose, and is loading; the message exchange was started again
\* too and its second stream has failed
C37_Witness ==
    /\ optCancelRef = 2 /\ optStreams[1] = "cancelled" /\ optCalls[1].onClose = 1
    /\ optStreams[2] = "open" /\ optLoading
    /\ streamCancelRef = 2 /\ runStreams[1] = "cancelled" /\ runCalls[1].onClose = 1
    /\ runStreams[2] = "closed" /\ runError = "network error" /\ ~runLoading
    /\ mounted

====
